---------------------------- MODULE Spec2Model ----------------------------
(***************************************************************************)
(* Model of the streaming turn orchestrator of the Jarvis desktop client   *)
(* (main.js, ipcMain.handle('send-chat-stream')), of the conversation      *)
(* history store (session.manager.js) and of the tools the orchestrator    *)
(* invokes (AIService, found in src/src/core/logger.js lines 42-354).      *)
(*                                                                         *)
(* A JavaScript string is a sequence of tokens; concatenation is \o, the   *)
(* empty string is << >> and is the only falsy string.  An optional        *)
(* argument is << >> when omitted and <<v>> when supplied.  One action is  *)
(* one synchronous run of a handler between two awaits, which is what the  *)
(* event loop interleaves.                                                 *)
(***************************************************************************)
EXTENDS Integers, Sequences, FiniteSets, TLC

(***************************************************************************)
(* Bounds of the model.  maxHistoryItems and maxRecentItems are the        *)
(* configured limits of Config.session (50 and 10 in config.js, lines      *)
(* 43-46); the code reads them through config.get and the model is checked *)
(* with scaled values so that eviction happens within a few appends.       *)
(***************************************************************************)
MaxTurns == 2

MaxStream == 1

MaxEvents == 3

\* the most events one stream yields in the specification of the tools
MaxToolEvents == 2

\* the most tool executions made outside a turn
MaxApplications == 2

\* the most appends made through the SessionManager alone
MaxSessionOps == 3

\* the most network chunks one response of the gateway client's stream has
MaxChunks == 2

\* the most key presses followed
MaxPresses == 3

maxHistoryItems == 3

maxRecentItems == 2

Turns == 1 .. MaxTurns

VARIABLES
  conversationHistory,  \* SessionManager.conversationHistory
  clock,                \* logical time: the source of entry timestamps
  pc,                   \* per handler invocation: idle, streaming, corrective,
                        \* done (returned) or rejected (threw)
  text,                 \* the handler's argument
  messages,             \* the message list streamChat gives to the gateway
  stream,               \* the events the stream has yielded so far
  fullText,             \* local fullText
  toolResults,          \* local toolResults
  generatedTypes,       \* local generatedTypes
  missingTypes,         \* local missingTypes
  idx,                  \* position of the corrective loop in missingTypes
  sent,                 \* messages sent through event.sender, in order
  calls,                \* corrective tool invocations made, in order, each with
                        \* the gateway's answer to its request
  appends,              \* the entries this invocation pushed to the history
  ret,                  \* the value the handler returned
  events,               \* SessionManager.events
  op,                   \* the SessionManager method called last
  applied,              \* the tool executions made outside a turn, in order
  sse,                  \* OpenRouterService.streamChat: lines read, values yielded
  windows,              \* WindowManager: isVisible, isInteractive, the windows
  key,                  \* the accelerators pressed and the handler each ran
  renderer              \* the visual chat page: its await, its streaming message

sessionVars == <<conversationHistory, clock>>

localVars == <<text, messages, stream, fullText, toolResults, generatedTypes,
               missingTypes, idx, sent, calls, appends, ret>>

\* the state outside the turn handler and the history
otherVars == <<op, applied, sse, windows, key, renderer>>

vars == <<conversationHistory, clock, pc, text, messages, stream, fullText,
          toolResults, generatedTypes, missingTypes, idx, sent, calls,
          appends, ret, events, op, applied, sse, windows, key, renderer>>

-----------------------------------------------------------------------------
(* JavaScript helpers *)

Min(a, b) == IF a < b THEN a ELSE b

\* a || b on strings: the empty string is falsy
OrElse(a, b) == IF a # << >> THEN a ELSE b

\* mutant: opt || d, which replaces a supplied 0 too
Coalesce_Falsy(opt, d) == IF opt = << >> \/ opt[1] = 0 THEN d ELSE opt[1]

\* x ?? d on an optional argument
Coalesce(opt, d) == IF opt = << >> THEN d ELSE opt[1]

IsSpace(c) == c \in {" ", "\n"}

RECURSIVE trimStart(_)
trimStart(s) ==
  IF s # << >> /\ IsSpace(Head(s)) THEN trimStart(Tail(s)) ELSE s

RECURSIVE trimEnd(_)
trimEnd(s) ==
  IF s # << >> /\ IsSpace(s[Len(s)]) THEN trimEnd(SubSeq(s, 1, Len(s) - 1)) ELSE s

\* String.prototype.trim
trim(s) == trimEnd(trimStart(s))

\* String.prototype.substring(0, n)
substring0(s, n) == SubSeq(s, 1, Min(n, Len(s)))

PromptPrefixLen == 200

-----------------------------------------------------------------------------
(* SessionManager *)

\* mutant: the comparison lets one entry too many stay
trimHistory_OffByOne(h) ==
  IF Len(h) > maxHistoryItems + 1
  THEN SubSeq(h, Len(h) - maxHistoryItems, Len(h))
  ELSE h

\* mutant: the excess is cut from the tail, not from the head
trimHistory_DropNewest(h) ==
  IF Len(h) > maxHistoryItems THEN SubSeq(h, 1, maxHistoryItems) ELSE h

trimHistory(h) ==
  IF Len(h) > maxHistoryItems
  THEN LET excess == Len(h) - maxHistoryItems
       IN  SubSeq(h, excess + 1, Len(h))
  ELSE h

UserEntry(txt, source, now) ==
  [role |-> "user", content |-> txt, timestamp |-> now, source |-> source]

AssistantEntry(txt, metadata, now) ==
  [role |-> "assistant", content |-> txt, timestamp |-> now, metadata |-> metadata]

addUserInput(h, txt, source, now) ==
  trimHistory(Append(h, UserEntry(txt, source, now)))

\* mutant: unshift in place of push
addModelResponse_Unshift(h, txt, metadata, now) ==
  trimHistory(<<AssistantEntry(txt, metadata, now)>> \o h)

addModelResponse(h, txt, metadata, now) ==
  trimHistory(Append(h, AssistantEntry(txt, metadata, now)))

\* mutant: the first n entries are taken
sliceLast_First(h, n) == SubSeq(h, 1, Min(n, Len(h)))

\* Array.prototype.slice(-n): slice(-0) is slice(0), the whole array
sliceLast(h, n) ==
  IF n = 0 THEN h ELSE SubSeq(h, Len(h) - Min(n, Len(h)) + 1, Len(h))

getOptimizedHistory(h) ==
  LET recentCount == Min(maxRecentItems, Len(h))
  IN  [recent |-> sliceLast(h, recentCount), full |-> h, count |-> Len(h)]

clear == << >>

-----------------------------------------------------------------------------
(* AIService: the tools and the message list of streamChat *)

ModelId == "openai/gpt-3.5-turbo"

Position(px, py) == [x |-> Coalesce(px, 50), y |-> Coalesce(py, 50)]

Returned(v) == [threw |-> FALSE, value |-> v]

Threw(msg) == [threw |-> TRUE, error |-> msg]

\* generateTextTool().execute
generateText(args) ==
  Returned([type |-> "text", content |-> args.text,
            position |-> Position(args.positionX, args.positionY)])

RECURSIVE removeTokens(_, _)
removeTokens(s, toks) ==
  IF s = << >> THEN << >>
  ELSE IF Head(s) \in toks THEN removeTokens(Tail(s), toks)
       ELSE <<Head(s)>> \o removeTokens(Tail(s), toks)

\* the code-fence markers the two replace() calls of generateMermaidDiagramTool
\* remove: an opening fence tagged mermaid and a bare fence
FenceTokens == {"[fence mermaid]", "[fence]"}

\* trim, the two replace() calls, trim
stripFences(s) == trim(removeTokens(trim(s), FenceTokens))

\* generateMermaidDiagramTool().execute, given what axios.post did
generateMermaidDiagram(args, response) ==
  IF ~response.ok THEN Threw(response.error)
  ELSE Returned([type |-> "mermaid", content |-> stripFences(response.content),
                 position |-> Position(args.positionX, args.positionY)])

AllowedFinishReasons == {"stop", "length", "content_filter"}

\* mutant: the image payload is looked at before the completion reason
generateImage_ImagesFirst(args, response) ==
  IF ~response.ok THEN Threw(response.error)
  ELSE IF Len(response.images) > 0
       THEN IF response.images[1] = << >>
            THEN Threw("Generated image data is invalid or missing")
            ELSE Returned([type |-> "image", content |-> response.images[1],
                           position |-> Position(args.positionX, args.positionY)])
  ELSE IF response.finish_reason = << >>
          \/ response.finish_reason[1] \notin AllowedFinishReasons
       THEN Threw("AI generation incomplete")
  ELSE IF response.content # << >>
       THEN Threw("AI model returned text instead of generating an image")
  ELSE Threw("AI model did not generate any content")

\* generateImageTool().execute, given what axios.post did
generateImage(args, response) ==
  IF ~response.ok THEN Threw(response.error)
  ELSE IF response.finish_reason = << >>
          \/ response.finish_reason[1] \notin AllowedFinishReasons
       THEN Threw("AI generation incomplete")
  ELSE IF Len(response.images) > 0
       THEN IF response.images[1] = << >>
            THEN Threw("Generated image data is invalid or missing")
            ELSE Returned([type |-> "image", content |-> response.images[1],
                           position |-> Position(args.positionX, args.positionY)])
  ELSE IF response.content # << >>
       THEN Threw("AI model returned text instead of generating an image")
  ELSE Threw("AI model did not generate any content")

\* history.map(h => ({role, content})) followed by the user message
RECURSIVE mapRoleContent(_)
mapRoleContent(h) ==
  IF h = << >> THEN << >>
  ELSE <<[role |-> Head(h).role, content |-> Head(h).content]>>
         \o mapRoleContent(Tail(h))

streamChatMessages(message, history) ==
  mapRoleContent(history) \o <<[role |-> "user", content |-> message]>>

-----------------------------------------------------------------------------
(* The environment: handler arguments, stream events, gateway responses *)

Inputs == {<< >>, <<" ">>, <<"What is 2+2?">>}

Deltas == {<<"4">>, <<" ">>}

ToolNames == {"generateText", "generateMermaidDiagram", "generateImage",
              "generateLayout"}

Null == [type |-> "null"]

TransportError == [ok |-> FALSE, error |-> "Request failed"]

DiagramResponses ==
  {TransportError} \cup
  {[ok |-> TRUE, content |-> c] :
     c \in {<<"graph TD">>, <<"[fence mermaid]", "graph TD", "[fence]">>, << >>}}

ImageAnswer(f, im, c) ==
  [ok |-> TRUE, finish_reason |-> f, images |-> im, content |-> c]

\* one answer for each way through generateImage: the request fails; an
\* image with an allowed reason, without and with text; an image with the
\* reason error and with no reason; no image but text; nothing; an empty
\* first image
ImageResponses ==
  {TransportError,
   ImageAnswer(<<"stop">>, << <<"data:image/png">> >>, << >>),
   ImageAnswer(<<"stop">>, << <<"data:image/png">> >>, <<"I cannot draw">>),
   ImageAnswer(<<"error">>, << <<"data:image/png">> >>, << >>),
   ImageAnswer(<< >>, << <<"data:image/png">> >>, << >>),
   ImageAnswer(<<"stop">>, << >>, <<"I cannot draw">>),
   ImageAnswer(<<"stop">>, << >>, << >>),
   ImageAnswer(<<"stop">>, << << >>, <<"data:image/png">> >>, << >>)}

\* the arguments the remote model gives a tool; they satisfy the tool's
\* inputSchema (a position, when given, is a number from 0 to 100)
ModelArgs(name) ==
  CASE name = "generateText" ->
         {[text |-> <<"4">>, positionX |-> << >>, positionY |-> << >>],
          [text |-> <<"4">>, positionX |-> <<0>>, positionY |-> <<80>>]}
    [] name = "generateMermaidDiagram" ->
         {[description |-> <<"sum">>, positionX |-> <<60>>, positionY |-> <<20>>]}
    [] name = "generateImage" ->
         {[prompt |-> <<"numbers">>, positionX |-> <<35>>, positionY |-> <<45>>]}
    [] OTHER ->
         {[elements |-> << >>],
          [elements |->
             <<[id |-> "a", type |-> "text", content |-> <<"4">>,
                position |-> [x |-> 15, y |-> 15]],
               [id |-> "b", type |-> "mermaid", content |-> <<"graph TD">>,
                position |-> [x |-> 60, y |-> 20]],
               [id |-> "c", type |-> "image", content |-> <<"numbers">>,
                position |-> [x |-> 35, y |-> 45]]>>]}

\* generateLayoutTool().execute
generateLayout(args) == Returned([type |-> "layout", elements |-> args.elements])

\* what a tool-result event of the stream can carry: the value the tool's
\* execute returned for the model's arguments, or nothing
StreamedResults(name) ==
  (IF name = "generateImage" THEN {Null} ELSE {}) \cup
  CASE name = "generateText" ->
         {generateText(a).value : a \in ModelArgs(name)}
    [] name = "generateMermaidDiagram" ->
         {generateMermaidDiagram(a, [ok |-> TRUE, content |-> <<"graph TD">>]).value :
            a \in ModelArgs(name)}
    [] name = "generateImage" ->
         {generateImage(a, [ok |-> TRUE, finish_reason |-> <<"stop">>,
                            images |-> << <<"data:image/png">> >>,
                            content |-> << >>]).value : a \in ModelArgs(name)}
    [] OTHER ->
         {generateLayout(a).value : a \in ModelArgs(name)}

\* the chunks of result.fullStream: text deltas, tool calls, tool results,
\* and chunks of other types (step and finish markers, tool errors)
SdkChunks ==
  {[type |-> "text-delta", text |-> d] : d \in Deltas}
  \cup UNION {{[type |-> "tool-call", toolName |-> n, input |-> a] :
                 a \in ModelArgs(n)} : n \in {"generateText", "generateImage"}}
  \cup UNION {{[type |-> "tool-result", toolName |-> n, output |-> r] :
                 r \in StreamedResults(n)} : n \in ToolNames}
  \cup {[type |-> "finish-step"], [type |-> "tool-error"]}

\* mutant: the tool-result event carries the chunk, not its output
streamChatYield_WholeChunk(chunk) ==
  IF chunk.type = "text-delta"
  THEN <<[type |-> "text", content |-> chunk.text]>>
  ELSE IF chunk.type = "tool-call"
  THEN <<[type |-> "tool-call", toolName |-> chunk.toolName, args |-> chunk.input]>>
  ELSE IF chunk.type = "tool-result"
  THEN <<[type |-> "tool-result", toolName |-> chunk.toolName, result |-> chunk]>>
  ELSE << >>

\* The body of for await (const chunk of result.fullStream) in
\* AIService.streamChat: the event yielded for a chunk, << >> when none is.
streamChatYield(chunk) ==
  IF chunk.type = "text-delta"
  THEN <<[type |-> "text", content |-> chunk.text]>>
  ELSE IF chunk.type = "tool-call"
  THEN <<[type |-> "tool-call", toolName |-> chunk.toolName, args |-> chunk.input]>>
  ELSE IF chunk.type = "tool-result"
  THEN <<[type |-> "tool-result", toolName |-> chunk.toolName,
          result |-> chunk.output]>>
  ELSE << >>

\* the events the handler's stream can yield
StreamEvents ==
  {streamChatYield(c)[1] : c \in {d \in SdkChunks : streamChatYield(d) # << >>}}

\* the largest vertical position the system prompt allows
MaxPolicyY == 65

\* the events of a model that follows the POSITIONING REQUIREMENTS of the
\* system prompt: a vertical position, when given, is at most MaxPolicyY
PolicyEvents ==
  {e \in StreamEvents :
     CASE e.type = "tool-call" ->
            e.args.positionY = << >> \/ e.args.positionY[1] <= MaxPolicyY
       [] e.type = "tool-result" ->
            "position" \in DOMAIN e.result => e.result.position.y <= MaxPolicyY
       [] OTHER -> TRUE}

-----------------------------------------------------------------------------
(* ipcMain.handle('send-chat-stream') *)

Init ==
  /\ conversationHistory = << >>
  /\ clock = 1
  /\ pc = [t \in Turns |-> "idle"]
  /\ text = [t \in Turns |-> << >>]
  /\ messages = [t \in Turns |-> << >>]
  /\ stream = [t \in Turns |-> << >>]
  /\ fullText = [t \in Turns |-> << >>]
  /\ toolResults = [t \in Turns |-> << >>]
  /\ generatedTypes = [t \in Turns |-> {}]
  /\ missingTypes = [t \in Turns |-> << >>]
  /\ idx = [t \in Turns |-> 1]
  /\ sent = [t \in Turns |-> << >>]
  /\ calls = [t \in Turns |-> << >>]
  /\ appends = [t \in Turns |-> << >>]
  /\ ret = [t \in Turns |-> [pending |-> TRUE]]
  /\ events = <<[description |-> "Application started", timestamp |-> 0]>>
  /\ op = "none"
  /\ applied = << >>
  /\ sse = [state |-> "idle"]
  /\ windows = [isVisible |-> TRUE, isInteractive |-> TRUE,
                shown |-> [overlay |-> FALSE, visualChat |-> TRUE],
                ignoreMouse |-> [overlay |-> FALSE, visualChat |-> FALSE],
                modeSent |-> [overlay |-> << >>, visualChat |-> << >>]]
  /\ key = << >>
  /\ renderer = [state |-> "idle", text |-> << >>,
                 currentStreamingMessage |-> << >>, streaming |-> {},
                 messageText |-> << >>, positioned |-> << >>, read |-> 0]

\* event.sender.send(channel, payload)
send(outbox, msg) == Append(outbox, msg)

\* Entry of the handler up to the first await: addUserInput,
\* getOptimizedHistory, streamChat.  Invocations are numbered in the order
\* in which they arrive.
SendChatStream(t, txt) ==
  /\ pc[t] = "idle"
  /\ \A u \in Turns : u < t => pc[u] # "idle"
  /\ LET h == addUserInput(conversationHistory, txt, "chat", clock)
         history == getOptimizedHistory(h)
     IN  /\ conversationHistory' = h
         /\ messages' = [messages EXCEPT ![t] = streamChatMessages(txt, history.recent)]
         /\ appends' = [appends EXCEPT ![t] = <<UserEntry(txt, "chat", clock)>>]
  /\ clock' = clock + 1
  /\ text' = [text EXCEPT ![t] = txt]
  /\ fullText' = [fullText EXCEPT ![t] = << >>]
  /\ toolResults' = [toolResults EXCEPT ![t] = << >>]
  /\ generatedTypes' = [generatedTypes EXCEPT ![t] = {}]
  /\ pc' = [pc EXCEPT ![t] = "streaming"]
  /\ UNCHANGED <<stream, missingTypes, idx, sent, calls, ret>>

\* a handler argument that is no string
Undefined == <<"[undefined]">>

\* The handler is invoked with undefined: addUserInput pushes the entry and
\* trims, then its logger.debug argument text.length throws, outside the
\* handler's try, so the handler's promise rejects.
SendChatStreamRejects(t) ==
  /\ pc[t] = "idle"
  /\ \A u \in Turns : u < t => pc[u] # "idle"
  /\ conversationHistory' = addUserInput(conversationHistory, Undefined, "chat", clock)
  /\ appends' = [appends EXCEPT ![t] = <<UserEntry(Undefined, "chat", clock)>>]
  /\ clock' = clock + 1
  /\ text' = [text EXCEPT ![t] = Undefined]
  /\ pc' = [pc EXCEPT ![t] = "rejected"]
  /\ UNCHANGED <<messages, stream, fullText, toolResults, generatedTypes,
                 missingTypes, idx, sent, calls, ret, events, otherVars>>

\* mutant: the delta is put in front of the buffer
OnText_Prepends(t, e) ==
  /\ fullText' = [fullText EXCEPT ![t] = e.content \o @]
  /\ sent' = [sent EXCEPT ![t] =
                send(@, [channel |-> "chat-stream-chunk", chunk |-> e.content])]
  /\ UNCHANGED <<toolResults, generatedTypes>>

\* mutant: a text delta counts as the text type
OnText_MarksText(t, e) ==
  /\ fullText' = [fullText EXCEPT ![t] = @ \o e.content]
  /\ generatedTypes' = [generatedTypes EXCEPT ![t] = @ \cup {"text"}]
  /\ sent' = [sent EXCEPT ![t] =
                send(@, [channel |-> "chat-stream-chunk", chunk |-> e.content])]
  /\ UNCHANGED toolResults

\* mutant: fullText is one buffer that every invocation writes
OnText_SharedBuffer(t, e) ==
  /\ fullText' = [u \in Turns |-> fullText[u] \o e.content]
  /\ sent' = [sent EXCEPT ![t] =
                send(@, [channel |-> "chat-stream-chunk", chunk |-> e.content])]
  /\ UNCHANGED <<toolResults, generatedTypes>>

\* chunk.type === 'text'
OnText(t, e) ==
  /\ fullText' = [fullText EXCEPT ![t] = @ \o e.content]
  /\ sent' = [sent EXCEPT ![t] =
                send(@, [channel |-> "chat-stream-chunk", chunk |-> e.content])]
  /\ UNCHANGED <<toolResults, generatedTypes>>

\* mutant: the call already marks the tool's type as generated
OnToolCall_MarksType(t, e) ==
  /\ sent' = [sent EXCEPT ![t] =
                send(@, [channel |-> "tool-call", toolName |-> e.toolName,
                         args |-> e.args])]
  /\ generatedTypes' = [generatedTypes EXCEPT ![t] =
                          @ \cup (IF e.toolName = "generateText" THEN {"text"} ELSE {})
                            \cup (IF e.toolName = "generateImage" THEN {"image"} ELSE {})]
  /\ UNCHANGED <<fullText, toolResults>>

\* chunk.type === 'tool-call'
OnToolCall(t, e) ==
  /\ sent' = [sent EXCEPT ![t] =
                send(@, [channel |-> "tool-call", toolName |-> e.toolName,
                         args |-> e.args])]
  /\ UNCHANGED <<fullText, toolResults, generatedTypes>>

\* mutant: a layout result counts as an image
trackGeneratedTypes_LayoutAsImage(types, toolName) ==
  types \cup (IF toolName = "generateText" THEN {"text"} ELSE {})
        \cup (IF toolName = "generateMermaidDiagram" THEN {"diagram"} ELSE {})
        \cup (IF toolName \in {"generateImage", "generateLayout"} THEN {"image"} ELSE {})

\* the three generatedTypes.add lines
trackGeneratedTypes(types, toolName) ==
  types \cup (IF toolName = "generateText" THEN {"text"} ELSE {})
        \cup (IF toolName = "generateMermaidDiagram" THEN {"diagram"} ELSE {})
        \cup (IF toolName = "generateImage" THEN {"image"} ELSE {})

\* mutant: a result that carries nothing does not mark its type
OnToolResult_SkipsNull(t, e) ==
  /\ toolResults' = [toolResults EXCEPT ![t] =
                       Append(@, [toolName |-> e.toolName, result |-> e.result])]
  /\ generatedTypes' = [generatedTypes EXCEPT ![t] =
                          IF e.result = Null THEN @
                          ELSE trackGeneratedTypes(@, e.toolName)]
  /\ sent' = [sent EXCEPT ![t] =
                send(@, [channel |-> "tool-result", toolName |-> e.toolName,
                         result |-> e.result])]
  /\ UNCHANGED fullText

\* chunk.type === 'tool-result'
OnToolResult(t, e) ==
  /\ toolResults' = [toolResults EXCEPT ![t] =
                       Append(@, [toolName |-> e.toolName, result |-> e.result])]
  /\ generatedTypes' = [generatedTypes EXCEPT ![t] = trackGeneratedTypes(@, e.toolName)]
  /\ sent' = [sent EXCEPT ![t] =
                send(@, [channel |-> "tool-result", toolName |-> e.toolName,
                         result |-> e.result])]
  /\ UNCHANGED fullText

\* One iteration of the for await loop: the stream yields e, the body runs.
StreamEvent(t, e) ==
  /\ pc[t] = "streaming"
  /\ stream' = [stream EXCEPT ![t] = Append(@, e)]
  /\ CASE e.type = "text" -> OnText(t, e)
       [] e.type = "tool-call" -> OnToolCall(t, e)
       [] e.type = "tool-result" -> OnToolResult(t, e)
  /\ UNCHANGED <<conversationHistory, clock, pc, text, messages, missingTypes,
                 idx, calls, appends, ret>>

\* mutant: the failure path takes the invocation's user Turn back out
Fail_RollsBack(t, msg) ==
  /\ ret' = [ret EXCEPT ![t] = [success |-> FALSE, error |-> msg]]
  /\ pc' = [pc EXCEPT ![t] = "done"]
  /\ conversationHistory' =
       IF conversationHistory # << >>
          /\ conversationHistory[Len(conversationHistory)] = appends[t][1]
       THEN SubSeq(conversationHistory, 1, Len(conversationHistory) - 1)
       ELSE conversationHistory
  /\ UNCHANGED <<clock, text, messages, stream, fullText, toolResults,
                 generatedTypes, missingTypes, idx, sent, calls, appends>>

\* mutant: the failure path saves the text received so far
Fail_SavesPartial(t, msg) ==
  /\ ret' = [ret EXCEPT ![t] = [success |-> FALSE, error |-> msg]]
  /\ pc' = [pc EXCEPT ![t] = "done"]
  /\ IF fullText[t] # << >>
     THEN LET metadata == [model |-> ModelId, tools |-> toolResults[t]]
          IN  /\ conversationHistory' =
                   addModelResponse(conversationHistory, fullText[t], metadata, clock)
              /\ appends' = [appends EXCEPT ![t] =
                               Append(@, AssistantEntry(fullText[t], metadata, clock))]
              /\ clock' = clock + 1
     ELSE UNCHANGED <<conversationHistory, clock, appends>>
  /\ UNCHANGED <<text, messages, stream, fullText, toolResults, generatedTypes,
                 missingTypes, idx, sent, calls>>

\* The outer catch: log and return {success: false, error}.
Fail(t, msg) ==
  /\ ret' = [ret EXCEPT ![t] = [success |-> FALSE, error |-> msg]]
  /\ pc' = [pc EXCEPT ![t] = "done"]
  /\ UNCHANGED <<conversationHistory, clock, text, messages, stream, fullText,
                 toolResults, generatedTypes, missingTypes, idx, sent, calls,
                 appends>>

\* mutant: an error also reaches the outer catch during the corrective loop
StreamRaise_AlsoWhileCorrective(t) ==
  /\ pc[t] \in {"streaming", "corrective"}
  /\ Fail(t, "Stream request failed")

\* mutant: when the stream raises, the handler starts it over
StreamRaise_Retries(t) ==
  /\ pc[t] = "streaming"
  /\ stream[t] # << >>
  /\ stream' = [stream EXCEPT ![t] = << >>]
  /\ UNCHANGED <<conversationHistory, clock, pc, text, messages, fullText,
                 toolResults, generatedTypes, missingTypes, idx, sent, calls,
                 appends, ret>>

\* The stream raises: streamChat logs and rethrows into the outer catch.
StreamRaise(t) ==
  /\ pc[t] = "streaming"
  /\ Fail(t, "Stream request failed")

\* mutant: chat-stream-complete is sent ahead of the turn's other messages
Complete_CompleteFirst(t, results, outbox) ==
  /\ IF fullText[t] # << >> \/ Len(results) > 0
     THEN LET content == OrElse(fullText[t], <<"Tool execution completed">>)
              metadata == [model |-> ModelId, tools |-> results]
          IN  /\ conversationHistory' =
                   addModelResponse(conversationHistory, content, metadata, clock)
              /\ appends' = [appends EXCEPT ![t] =
                               Append(@, AssistantEntry(content, metadata, clock))]
              /\ clock' = clock + 1
     ELSE UNCHANGED <<conversationHistory, clock, appends>>
  /\ toolResults' = [toolResults EXCEPT ![t] = results]
  /\ sent' = [sent EXCEPT ![t] = <<[channel |-> "chat-stream-complete"]>> \o outbox]
  /\ ret' = [ret EXCEPT ![t] = [success |-> TRUE]]
  /\ pc' = [pc EXCEPT ![t] = "done"]

\* mutant: the response is saved only when text was streamed
Complete_OnlyWithText(t, results, outbox) ==
  /\ IF fullText[t] # << >>
     THEN LET metadata == [model |-> ModelId, tools |-> results]
          IN  /\ conversationHistory' =
                   addModelResponse(conversationHistory, fullText[t], metadata, clock)
              /\ appends' = [appends EXCEPT ![t] =
                               Append(@, AssistantEntry(fullText[t], metadata, clock))]
              /\ clock' = clock + 1
     ELSE UNCHANGED <<conversationHistory, clock, appends>>
  /\ toolResults' = [toolResults EXCEPT ![t] = results]
  /\ sent' = [sent EXCEPT ![t] = send(outbox, [channel |-> "chat-stream-complete"])]
  /\ ret' = [ret EXCEPT ![t] = [success |-> TRUE]]
  /\ pc' = [pc EXCEPT ![t] = "done"]

\* "Save response to session", chat-stream-complete, return {success: true}
Complete(t, results, outbox) ==
  /\ IF fullText[t] # << >> \/ Len(results) > 0
     THEN LET content == OrElse(fullText[t], <<"Tool execution completed">>)
              metadata == [model |-> ModelId, tools |-> results]
          IN  /\ conversationHistory' =
                   addModelResponse(conversationHistory, content, metadata, clock)
              /\ appends' = [appends EXCEPT ![t] =
                               Append(@, AssistantEntry(content, metadata, clock))]
              /\ clock' = clock + 1
     ELSE UNCHANGED <<conversationHistory, clock, appends>>
  /\ toolResults' = [toolResults EXCEPT ![t] = results]
  /\ sent' = [sent EXCEPT ![t] = send(outbox, [channel |-> "chat-stream-complete"])]
  /\ ret' = [ret EXCEPT ![t] = [success |-> TRUE]]
  /\ pc' = [pc EXCEPT ![t] = "done"]

\* mutant: text is required even when a generateText result was streamed
computeMissingTypes_AlwaysText(types) ==
  <<"text">>
    \o (IF "diagram" \notin types THEN <<"diagram">> ELSE << >>)
    \o (IF "image" \notin types THEN <<"image">> ELSE << >>)

\* const missingTypes = [] and the three pushes
computeMissingTypes(types) ==
  (IF "text" \notin types THEN <<"text">> ELSE << >>)
    \o (IF "diagram" \notin types THEN <<"diagram">> ELSE << >>)
    \o (IF "image" \notin types THEN <<"image">> ELSE << >>)

\* The stream is exhausted: compute missingTypes; with none missing the
\* handler saves and returns in the same run.
StreamEnd(t) ==
  /\ pc[t] = "streaming"
  /\ LET missing == computeMissingTypes(generatedTypes[t])
     IN  /\ missingTypes' = [missingTypes EXCEPT ![t] = missing]
         /\ idx' = [idx EXCEPT ![t] = 1]
         /\ IF Len(missing) > 0
            THEN /\ pc' = [pc EXCEPT ![t] = "corrective"]
                 /\ UNCHANGED <<conversationHistory, clock, appends, toolResults,
                                sent, ret>>
            ELSE Complete(t, toolResults[t], sent[t])
  /\ UNCHANGED <<text, messages, stream, fullText, generatedTypes, calls>>

\* mutant: the image default is placed next to the diagram default
positionMap_Close(type) ==
  CASE type = "text" -> [x |-> 15, y |-> 15]
    [] type = "diagram" -> [x |-> 60, y |-> 20]
    [] type = "image" -> [x |-> 50, y |-> 25]

positionMap(type) ==
  CASE type = "text" -> [x |-> 15, y |-> 15]
    [] type = "diagram" -> [x |-> 60, y |-> 20]
    [] type = "image" -> [x |-> 35, y |-> 45]

ToolOf(type) ==
  CASE type = "text" -> "generateText"
    [] type = "diagram" -> "generateMermaidDiagram"
    [] type = "image" -> "generateImage"

\* mutant: the corrective text is the buffer as it is
CorrectiveArgs_NoTrim(type, ft, txt) ==
  LET pos == positionMap(type)
  IN  CASE type = "text" ->
             [text |-> OrElse(ft, <<"Response to: ">> \o txt),
              positionX |-> <<pos.x>>, positionY |-> <<pos.y>>]
        [] type = "diagram" ->
             [description |->
                IF ft # << >>
                THEN <<"Create a visual diagram representing: ">>
                       \o substring0(ft, PromptPrefixLen)
                ELSE <<"Visual representation of: ">> \o txt,
              positionX |-> <<pos.x>>, positionY |-> <<pos.y>>]
        [] type = "image" ->
             [prompt |->
                IF ft # << >>
                THEN <<"Visual image related to: ">> \o substring0(ft, PromptPrefixLen)
                ELSE <<"Visual image related to: ">> \o txt,
              positionX |-> <<pos.x>>, positionY |-> <<pos.y>>]

\* the arguments of the corrective invocation for a missing type
CorrectiveArgs(type, ft, txt) ==
  LET pos == positionMap(type)
  IN  CASE type = "text" ->
             [text |-> OrElse(trim(ft), <<"Response to: ">> \o txt),
              positionX |-> <<pos.x>>, positionY |-> <<pos.y>>]
        [] type = "diagram" ->
             [description |->
                IF ft # << >>
                THEN <<"Create a visual diagram representing: ">>
                       \o substring0(ft, PromptPrefixLen)
                ELSE <<"Visual representation of: ">> \o txt,
              positionX |-> <<pos.x>>, positionY |-> <<pos.y>>]
        [] type = "image" ->
             [prompt |->
                IF ft # << >>
                THEN <<"Visual image related to: ">> \o substring0(ft, PromptPrefixLen)
                ELSE <<"Visual image related to: ">> \o txt,
              positionX |-> <<pos.x>>, positionY |-> <<pos.y>>]

\* tools.<tool>.execute(args), given what the gateway answered
execute(type, args, response) ==
  CASE type = "text" -> generateText(args)
    [] type = "diagram" -> generateMermaidDiagram(args, response)
    [] type = "image" -> generateImage(args, response)

\* the number of axios.post calls one execute makes: generateText makes
\* none, the diagram and the image tool make one and never retry
GatewayRequests(type) == IF type = "text" THEN 0 ELSE 1

\* the gateway answers a corrective invocation can meet
NoRequest == [ok |-> TRUE]

GatewayResponses(type, DR, IR) ==
  CASE type = "text" -> {NoRequest}
    [] type = "diagram" -> DR
    [] type = "image" -> IR

\* End of one iteration of for (const type of missingTypes): the next
\* iteration, or after the last one the save and the return.
LoopNext(t, results, outbox) ==
  /\ idx' = [idx EXCEPT ![t] = @ + 1]
  /\ IF idx[t] < Len(missingTypes[t])
     THEN /\ toolResults' = [toolResults EXCEPT ![t] = results]
          /\ sent' = [sent EXCEPT ![t] = outbox]
          /\ UNCHANGED <<conversationHistory, clock, appends, ret, pc>>
     ELSE Complete(t, results, outbox)

\* mutant: the corrective result is put in front of the streamed ones
CorrectiveReturned_Unshift(t, type, result) ==
  LoopNext(t,
           <<[toolName |-> ToolOf(type), result |-> result]>> \o toolResults[t],
           send(sent[t], [channel |-> "tool-result", toolName |-> ToolOf(type),
                          result |-> result]))

\* The invocation returned: send the tool-result, push it.
CorrectiveReturned(t, type, result) ==
  LoopNext(t,
           Append(toolResults[t], [toolName |-> ToolOf(type), result |-> result]),
           send(sent[t], [channel |-> "tool-result", toolName |-> ToolOf(type),
                          result |-> result]))

\* mutant: no inner catch, the error reaches the outer catch
CorrectiveCaught_Propagates(t, type, msg) ==
  /\ ret' = [ret EXCEPT ![t] = [success |-> FALSE, error |-> msg]]
  /\ pc' = [pc EXCEPT ![t] = "done"]
  /\ UNCHANGED <<idx, toolResults, sent, conversationHistory, clock, appends>>

\* mutant: the catch stores an empty result for the failed tool
CorrectiveCaught_PushesPlaceholder(t, type, msg) ==
  LoopNext(t, Append(toolResults[t], [toolName |-> ToolOf(type), result |-> Null]),
           sent[t])

\* The invocation threw: the inner catch logs it.
CorrectiveCaught(t, type, msg) ==
  LoopNext(t, toolResults[t], sent[t])

\* One iteration of the corrective loop.
Corrective(t, response) ==
  /\ pc[t] = "corrective"
  /\ LET type == missingTypes[t][idx[t]]
         args == CorrectiveArgs(type, fullText[t], text[t])
         outcome == execute(type, args, response)
     IN  /\ calls' = [calls EXCEPT ![t] =
                        Append(@, [toolName |-> ToolOf(type), args |-> args,
                                   response |-> response,
                                   requests |-> GatewayRequests(type),
                                   threw |-> outcome.threw])]
         /\ IF outcome.threw
            THEN CorrectiveCaught(t, type, outcome.error)
            ELSE CorrectiveReturned(t, type, outcome.value)
  /\ UNCHANGED <<text, messages, stream, fullText, generatedTypes, missingTypes>>

\* mutant: clear-session also ends the invocations that are in flight
ClearSession_Cancels ==
  /\ conversationHistory' = clear
  /\ events' = clear
  /\ pc' = [t \in Turns |->
             IF pc[t] \in {"streaming", "corrective"} THEN "done" ELSE pc[t]]
  /\ ret' = [t \in Turns |->
              IF pc[t] \in {"streaming", "corrective"}
              THEN [success |-> FALSE, error |-> "Session cleared"]
              ELSE ret[t]]
  /\ UNCHANGED <<clock, text, messages, stream, fullText, toolResults,
                 generatedTypes, missingTypes, idx, sent, calls, appends,
                 otherVars>>

\* ipcMain.handle('clear-session')
ClearSession ==
  /\ conversationHistory' = clear
  /\ events' = clear
  /\ UNCHANGED <<clock, pc, text, messages, stream, fullText, toolResults,
                 generatedTypes, missingTypes, idx, sent, calls, appends, ret,
                 otherVars>>

\* The steps of the invocations T, with arguments from In, stream events
\* from Ev (at most cap per stream) and gateway answers from DR (diagram
\* requests) and IR (image requests).
TurnStep(T, In, Ev, cap, DR, IR) ==
  /\ \/ \E t \in T, txt \in In : SendChatStream(t, txt)
     \/ \E t \in T, e \in Ev : Len(stream[t]) < cap /\ StreamEvent(t, e)
     \/ \E t \in T : StreamRaise(t)
     \/ \E t \in T : StreamEnd(t)
     \/ \E t \in T :
          /\ pc[t] = "corrective"
          /\ \E r \in GatewayResponses(missingTypes[t][idx[t]], DR, IR) :
               Corrective(t, r)
  /\ UNCHANGED <<events, otherVars>>

(***************************************************************************)
(* Spec: MaxTurns invocations of the handler overlap on the one history    *)
(* store, and clear-session can run between any two of their steps.  The   *)
(* streams are short and carry text only.                                  *)
(***************************************************************************)
SharedInputs == {<<"What is 2+2?">>}

SharedEvents == {[type |-> "text", content |-> <<"4">>]}

SharedDiagramResponses == {[ok |-> TRUE, content |-> <<"graph TD">>]}

SharedImageResponses ==
  {TransportError,
   [ok |-> TRUE, finish_reason |-> <<"stop">>,
    images |-> << <<"data:image/png">> >>, content |-> << >>]}

Next ==
  \/ TurnStep(Turns, SharedInputs, SharedEvents, MaxStream,
              SharedDiagramResponses, SharedImageResponses)
  \/ ClearSession

Spec == Init /\ [][Next]_vars

(***************************************************************************)
(* SpecAppends: the overlapping invocations of Spec with no clear-session  *)
(* between their appends.                                                  *)
(***************************************************************************)
NextAppends ==
  TurnStep(Turns, SharedInputs, SharedEvents, MaxStream,
           SharedDiagramResponses, SharedImageResponses)

SpecAppends == Init /\ [][NextAppends]_vars

(***************************************************************************)
(* SpecTurn: one invocation of the handler, alone, against every stream of *)
(* at most MaxEvents events of a model that keeps to the positioning       *)
(* requirements of the system prompt; the gateway answers the corrective   *)
(* diagram request in every way, the image request with an image or not at *)
(* all.                                                                    *)
(***************************************************************************)
NextTurn ==
  TurnStep({1}, Inputs, PolicyEvents, MaxEvents, DiagramResponses, SharedImageResponses)

SpecTurn == Init /\ [][NextTurn]_vars

(***************************************************************************)
(* SpecTools: one invocation of the handler, alone, with a string or with  *)
(* no argument, against every stream of at most MaxToolEvents events that  *)
(* the tools' schemas allow and every gateway answer.                      *)
(***************************************************************************)
NextTools ==
  \/ TurnStep({1}, Inputs, StreamEvents, MaxToolEvents, DiagramResponses, ImageResponses)
  \/ SendChatStreamRejects(1)

SpecTools == Init /\ [][NextTools]_vars

(***************************************************************************)
(* SpecSession: the methods of the SessionManager called in any order.     *)
(***************************************************************************)
\* SessionManager.addUserInput(text)
SessionAddUserInput(txt) ==
  /\ clock <= MaxSessionOps
  /\ conversationHistory' = addUserInput(conversationHistory, txt, "chat", clock)
  /\ clock' = clock + 1
  /\ op' = "addUserInput"
  /\ UNCHANGED <<pc, localVars, events, applied, sse, windows, key, renderer>>

\* SessionManager.addModelResponse(text, metadata)
SessionAddModelResponse(txt) ==
  /\ clock <= MaxSessionOps
  /\ conversationHistory' =
       addModelResponse(conversationHistory, txt, [model |-> ModelId], clock)
  /\ clock' = clock + 1
  /\ op' = "addModelResponse"
  /\ UNCHANGED <<pc, localVars, events, applied, sse, windows, key, renderer>>

\* SessionManager.addEvent(eventDescription)
SessionAddEvent(description) ==
  /\ clock <= MaxSessionOps
  /\ events' = Append(events, [description |-> description, timestamp |-> clock])
  /\ clock' = clock + 1
  /\ op' = "addEvent"
  /\ UNCHANGED <<conversationHistory, pc, localVars, applied, sse, windows, key, renderer>>

\* mutant: clear leaves the recorded events
SessionClear_KeepsEvents ==
  /\ conversationHistory' = clear
  /\ op' = "clear"
  /\ UNCHANGED <<events, clock, pc, localVars, applied, sse, windows, key, renderer>>

\* SessionManager.clear()
SessionClear ==
  /\ conversationHistory' = clear
  /\ events' = clear
  /\ op' = "clear"
  /\ UNCHANGED <<clock, pc, localVars, applied, sse, windows, key, renderer>>

\* SessionManager.getOptimizedHistory(), which changes nothing
SessionGetOptimizedHistory ==
  /\ op' = "getOptimizedHistory"
  /\ UNCHANGED <<conversationHistory, events, clock, pc, localVars, applied, sse,
                 windows, key, renderer>>

NextSession ==
  \/ \E txt \in SharedInputs : SessionAddUserInput(txt)
  \/ \E txt \in Deltas : SessionAddModelResponse(txt)
  \/ SessionAddEvent("Session event")
  \/ SessionClear
  \/ SessionGetOptimizedHistory

SpecSession == Init /\ [][NextSession]_vars

(***************************************************************************)
(* SpecOverlap: overlapping invocations that can be told apart by their    *)
(* streams: a text delta or a streamed image result.                       *)
(***************************************************************************)
OverlapEvents ==
  SharedEvents \cup
  {[type |-> "tool-result", toolName |-> "generateImage", result |-> Null]}

OverlapImageResponses ==
  {ImageAnswer(<<"stop">>, << <<"data:image/png">> >>, << >>)}

NextOverlap ==
  TurnStep(Turns, SharedInputs, OverlapEvents, MaxStream,
           SharedDiagramResponses, OverlapImageResponses)

SpecOverlap == Init /\ [][NextOverlap]_vars

(***************************************************************************)
(* SpecRenderer: the visual chat page sends one message; the handler runs  *)
(* the turn; the page's listeners receive what the handler sends, in the   *)
(* order sent, and the page's await resolves when the handler returned.    *)
(***************************************************************************)
frameRenderer ==
  UNCHANGED <<conversationHistory, clock, pc, localVars, events, op, applied,
              sse, windows, key>>

\* sendMessage up to its await: the trimmed field value, when not empty, is
\* shown, a streaming assistant message is created and the text is sent
sendMessage(value) ==
  /\ renderer.state = "idle"
  /\ IF trim(value) = << >>
     THEN UNCHANGED renderer
     ELSE renderer' = [renderer EXCEPT !.state = "awaiting",
                                       !.text = trim(value),
                                       !.currentStreamingMessage = <<1>>,
                                       !.streaming = {1},
                                       !.messageText = << >>,
                                       !.positioned = << >>]
  /\ frameRenderer

\* handleToolResult: the element added for a tool result
handleToolResult(r, toolName, result) ==
  IF result = Null \/ (toolName = "generateText" /\ result.content = << >>)
  THEN r
  ELSE [r EXCEPT !.positioned =
                   Append(@, CASE toolName = "generateText" -> "text"
                               [] toolName = "generateMermaidDiagram" -> "mermaid"
                               [] toolName = "generateImage" -> "image")]

\* the chat-stream-complete listener
onChatStreamComplete(r) ==
  IF r.currentStreamingMessage # << >>
  THEN [r EXCEPT !.streaming = @ \ {r.currentStreamingMessage[1]},
                 !.currentStreamingMessage = << >>]
  ELSE r

\* the listeners of setupIPCListeners, applied to one message
onMessage(r, msg) ==
  CASE msg.channel = "chat-stream-chunk" ->
         IF r.currentStreamingMessage # << >>
         THEN [r EXCEPT !.messageText = @ \o msg.chunk]
         ELSE r
    [] msg.channel = "tool-call" -> r
    [] msg.channel = "tool-result" -> handleToolResult(r, msg.toolName, msg.result)
    [] msg.channel = "chat-stream-complete" -> onChatStreamComplete(r)

\* the page receives the next message the handler sent
RendererReceive ==
  /\ renderer.read < Len(sent[1])
  /\ renderer' = [onMessage(renderer, sent[1][renderer.read + 1])
                    EXCEPT !.read = renderer.read + 1]
  /\ frameRenderer

\* await window.electronAPI.sendChatStream(text) resolves with the value the
\* handler returned; sendMessage does not look at it and ends
RendererResolve ==
  /\ renderer.state = "awaiting"
  /\ pc[1] = "done"
  /\ renderer' = [renderer EXCEPT !.state = "resolved"]
  /\ frameRenderer

NextRenderer ==
  \/ \E value \in Inputs : sendMessage(value)
  \/ TurnStep({1},
              IF renderer.state = "awaiting" THEN {renderer.text} ELSE {},
              OverlapEvents, MaxStream, DiagramResponses,
              SharedImageResponses)
  \/ RendererReceive
  \/ RendererResolve

SpecRenderer == Init /\ [][NextRenderer]_vars

\* every step of the handler and of the page that can be taken is taken
SpecRendererLive == SpecRenderer /\ WF_vars(NextRenderer)

(***************************************************************************)
(* SpecSse: OpenRouterService.streamChat reading one streamed response.    *)
(* A line is a sequence of tokens, the first being its prefix.             *)
(***************************************************************************)
\* JSON.parse(data): the parsed value, or a SyntaxError
JSONparse(data) ==
  CASE data = <<"{content:Hi}">> ->
         Returned([choices |-> <<[delta |-> [content |-> <<"Hi">>]]>>])
    [] data = <<"{content:Yo}">> ->
         Returned([choices |-> <<[delta |-> [content |-> <<"Yo">>]]>>])
    [] data = <<"{role:assistant}">> ->
         Returned([choices |-> <<[delta |-> [content |-> << >>]]>>])
    [] OTHER -> Threw("Unexpected token")

\* the lines a response can hold: data lines with a content delta, with a
\* delta without content, with a truncated JSON text, the sentinel, a
\* comment line and a blank line
SseLines ==
  {<<"data: ", "{content:Hi}">>, <<"data: ", "{content:Yo}">>,
   <<"data: ", "{role:assistant}">>, <<"data: ", "{cont">>,
   <<"data: ", "[DONE]">>, <<": OPENROUTER PROCESSING">>, <<" ">>}

\* a network chunk, already split at the line feeds: one line or two
SseChunks ==
  {<<a>> : a \in SseLines} \cup {<<a, b>> : a \in SseLines, b \in SseLines}

\* line.startsWith('data: ')
startsWithData(line) == line # << >> /\ line[1] = "data: "

\* mutant: a data line that does not parse ends the stream
RECURSIVE parseLines_StopsAtMalformed(_)
parseLines_StopsAtMalformed(lines) ==
  IF lines = << >> THEN [yielded |-> << >>, done |-> FALSE]
  ELSE LET line == Head(lines)
           data == Tail(line)
       IN  IF trim(line) = << >> \/ ~startsWithData(line)
           THEN parseLines_StopsAtMalformed(Tail(lines))
           ELSE IF data = <<"[DONE]">> \/ JSONparse(data).threw
           THEN [yielded |-> << >>, done |-> TRUE]
           ELSE LET content == JSONparse(data).value.choices[1].delta.content
                    rest == parseLines_StopsAtMalformed(Tail(lines))
                IN  [rest EXCEPT !.yielded = content \o @]

\* The body of for await (const chunk of response.data), for the lines of
\* one chunk: the contents yielded, and whether the sentinel was read.
RECURSIVE parseLines(_)
parseLines(lines) ==
  IF lines = << >> THEN [yielded |-> << >>, done |-> FALSE]
  ELSE LET line == Head(lines)
           data == Tail(line)
       IN  IF trim(line) = << >> \/ ~startsWithData(line)
           THEN parseLines(Tail(lines))
           ELSE IF data = <<"[DONE]">>
           THEN [yielded |-> << >>, done |-> TRUE]
           ELSE IF JSONparse(data).threw
           THEN parseLines(Tail(lines))
           ELSE LET content == JSONparse(data).value.choices[1].delta.content
                    rest == parseLines(Tail(lines))
                IN  [rest EXCEPT !.yielded = content \o @]

\* streamChat is called: the request is made, the response opens
SseStart ==
  /\ sse.state = "idle"
  /\ sse' = [state |-> "reading", lines |-> << >>, yielded |-> << >>]
  /\ UNCHANGED <<conversationHistory, clock, pc, localVars, events, op, applied,
                 windows, key, renderer>>

\* The response delivers a chunk: its lines are parsed, the contents
\* yielded; the generator returns when the sentinel is among them.
SseChunk(chunk) ==
  /\ sse.state = "reading"
  /\ Len(sse.lines) < MaxChunks
  /\ LET parsed == parseLines(chunk)
     IN  sse' = [state |-> IF parsed.done THEN "returned" ELSE "reading",
                 lines |-> Append(sse.lines, chunk),
                 yielded |-> sse.yielded \o parsed.yielded]
  /\ UNCHANGED <<conversationHistory, clock, pc, localVars, events, op, applied,
                 windows, key, renderer>>

\* the response ends without a sentinel: 'Stream completed'
SseEnd ==
  /\ sse.state = "reading"
  /\ sse' = [sse EXCEPT !.state = "returned"]
  /\ UNCHANGED <<conversationHistory, clock, pc, localVars, events, op, applied,
                 windows, key, renderer>>

\* the request or the response fails: the error is logged and thrown on
SseRaise ==
  /\ sse.state = "reading"
  /\ sse' = [sse EXCEPT !.state = "threw"]
  /\ UNCHANGED <<conversationHistory, clock, pc, localVars, events, op, applied,
                 windows, key, renderer>>

NextSse ==
  \/ SseStart
  \/ \E chunk \in SseChunks : SseChunk(chunk)
  \/ SseEnd
  \/ SseRaise

SpecSse == Init /\ [][NextSse]_vars

(***************************************************************************)
(* SpecShortcuts: the global shortcuts and the WindowManager they drive.   *)
(***************************************************************************)
WindowNames == {"overlay", "visualChat"}

toggleVisibility(w) ==
  LET v == ~w.isVisible
  IN  [w EXCEPT !.isVisible = v, !.shown = [n \in WindowNames |-> v]]

\* mutant: only the flag changes, the windows are left as they were
toggleInteraction_FlagOnly(w) ==
  LET i == ~w.isInteractive
  IN  [w EXCEPT !.isInteractive = i]

toggleInteraction(w) ==
  LET i == ~w.isInteractive
  IN  [w EXCEPT !.isInteractive = i,
                !.ignoreMouse = [n \in WindowNames |-> ~i],
                !.modeSent = [n \in WindowNames |-> <<i>>]]

showVisualChat(w) == [w EXCEPT !.shown.visualChat = TRUE]

hideVisualChat(w) == [w EXCEPT !.shown.visualChat = FALSE]

\* the table of setupGlobalShortcuts: accelerator to handler
shortcuts ==
  [a \in {"CommandOrControl+Shift+V", "CommandOrControl+Shift+I",
          "CommandOrControl+Shift+C", "Alt+A"} |->
     CASE a = "CommandOrControl+Shift+V" -> "toggleVisibility"
       [] a = "CommandOrControl+Shift+I" -> "toggleInteraction"
       [] a = "CommandOrControl+Shift+C" -> "showVisualChat"
       [] a = "Alt+A" -> "toggleInteraction"]

\* the table of the README: accelerator to action
ReadmeShortcuts ==
  [a \in {"CommandOrControl+Shift+V", "CommandOrControl+Shift+I",
          "CommandOrControl+Shift+C", "CommandOrControl+,", "Alt+A"} |->
     CASE a = "CommandOrControl+Shift+V" -> "toggleVisibility"
       [] a = "CommandOrControl+Shift+I" -> "toggleInteraction"
       [] a = "CommandOrControl+Shift+C" -> "showVisualChat"
       [] a = "CommandOrControl+," -> "openSettings"
       [] a = "Alt+A" -> "toggleInteraction"]

\* the handler registered under a name, applied to the WindowManager
RunHandler(name, w) ==
  CASE name = "toggleVisibility" -> toggleVisibility(w)
    [] name = "toggleInteraction" -> toggleInteraction(w)
    [] name = "showVisualChat" -> showVisualChat(w)

\* The user presses an accelerator: globalShortcut runs the handler
\* registered for it; for an accelerator that was never registered the
\* application is not called at all.
PressKey(accelerator) ==
  /\ Len(key) < MaxPresses
  /\ IF accelerator \in DOMAIN shortcuts
     THEN /\ windows' = RunHandler(shortcuts[accelerator], windows)
          /\ key' = Append(key, [accelerator |-> accelerator,
                                 ran |-> shortcuts[accelerator]])
     ELSE /\ windows' = windows
          /\ key' = Append(key, [accelerator |-> accelerator, ran |-> "none"])
  /\ UNCHANGED <<conversationHistory, clock, pc, localVars, events, op, applied,
                 sse, renderer>>

\* ipcMain.handle('hide-visual-chat')
HideVisualChat ==
  /\ windows' = hideVisualChat(windows)
  /\ UNCHANGED <<conversationHistory, clock, pc, localVars, events, op, applied,
                 sse, key, renderer>>

NextShortcuts ==
  \/ \E accelerator \in DOMAIN ReadmeShortcuts \cup DOMAIN shortcuts :
       PressKey(accelerator)
  \/ HideVisualChat

SpecShortcuts == Init /\ [][NextShortcuts]_vars

(***************************************************************************)
(* SpecExecute: the tools of AIService.getTools() executed outside a turn, *)
(* by the orchestrator directly or by the model through streamChat, with   *)
(* every combination of omitted and supplied positions.                    *)
(***************************************************************************)
\* a position argument: omitted, 0, or 100
PositionArgs == {<< >>, <<0>>, <<100>>}

\* the arguments a tool is executed with
ExecuteArgs(type) ==
  CASE type = "text" ->
         {[text |-> <<"4">>, positionX |-> px, positionY |-> py] :
            px \in PositionArgs, py \in PositionArgs}
    [] type = "diagram" ->
         {[description |-> <<"sum">>, positionX |-> px, positionY |-> py] :
            px \in {<< >>, <<0>>}, py \in {<< >>, <<0>>}}
    [] type = "image" ->
         {[prompt |-> <<"numbers">>, positionX |-> px, positionY |-> py] :
            px \in {<< >>, <<0>>}, py \in {<< >>, <<0>>}}

\* the record of one execution
Application(path, type, args, response, threw, result) ==
  [path |-> path, toolName |-> ToolOf(type), args |-> args, response |-> response,
   requests |-> GatewayRequests(type), threw |-> threw, result |-> result]

\* mutant: generateText keeps a count of its calls in its result
ExecuteDirect_Counting(type, args, response) ==
  /\ Len(applied) < MaxApplications
  /\ LET outcome == execute(type, args, response)
         result == IF outcome.threw THEN Null
                   ELSE IF type = "text"
                        THEN [outcome.value EXCEPT !.content = @ \o <<Len(applied)>>]
                        ELSE outcome.value
     IN  applied' = Append(applied, Application("direct", type, args, response,
                                                outcome.threw, result))
  /\ UNCHANGED <<conversationHistory, clock, pc, localVars, events, op, sse,
                 windows, key, renderer>>

\* tools.<tool>.execute(args) called by the orchestrator
ExecuteDirect(type, args, response) ==
  /\ Len(applied) < MaxApplications
  /\ LET outcome == execute(type, args, response)
     IN  applied' = Append(applied,
                           Application("direct", type, args, response, outcome.threw,
                                       IF outcome.threw THEN Null ELSE outcome.value))
  /\ UNCHANGED <<conversationHistory, clock, pc, localVars, events, op, sse,
                 windows, key, renderer>>

\* The model calls the tool: the SDK runs execute and puts its return value
\* in a tool-result chunk (a tool-error chunk when it threw), from which
\* streamChat yields the event.
ExecuteByModel(type, args, response) ==
  /\ Len(applied) < MaxApplications
  /\ LET outcome == execute(type, args, response)
         chunk == IF outcome.threw THEN [type |-> "tool-error"]
                  ELSE [type |-> "tool-result", toolName |-> ToolOf(type),
                        output |-> outcome.value]
         yielded == streamChatYield(chunk)
     IN  applied' = Append(applied,
                           Application("model", type, args, response, outcome.threw,
                                       IF yielded = << >> THEN Null
                                       ELSE yielded[1].result))
  /\ UNCHANGED <<conversationHistory, clock, pc, localVars, events, op, sse,
                 windows, key, renderer>>

NextExecute ==
  \E type \in {"text", "diagram", "image"} :
    \E args \in ExecuteArgs(type) :
      \E response \in GatewayResponses(type, SharedDiagramResponses \cup {TransportError},
                                        SharedImageResponses) :
        \/ ExecuteDirect(type, args, response)
        \/ ExecuteByModel(type, args, response)

SpecExecute == Init /\ [][NextExecute]_vars

-----------------------------------------------------------------------------
(* Vocabulary of the properties *)

Range(f) == {f[i] : i \in DOMAIN f}

Last(q) == q[Len(q)]

Succeeded(t) == pc[t] = "done" /\ ret[t].success

Failed(t) == pc[t] = "done" /\ ~ret[t].success

RequiredTools == {"generateText", "generateMermaidDiagram", "generateImage"}

ToolNamesIn(results) == {results[i].toolName : i \in DOMAIN results}

\* the tools of which a tool-result arrived in the stream of t
StreamedTools(t) ==
  {stream[t][i].toolName :
     i \in {j \in DOMAIN stream[t] : stream[t][j].type = "tool-result"}}

\* the tools whose corrective invocation returned a result
CorrectedTools(t) ==
  {calls[t][i].toolName : i \in {j \in DOMAIN calls[t] : ~calls[t][j].threw}}

SomeCorrectiveThrew(t) == \E i \in DOMAIN calls[t] : calls[t][i].threw

\* the assistant Turns invocation t appended
AssistantAppends(t) == {e \in Range(appends[t]) : e.role = "assistant"}

\* the user Turn of invocation t is in the history
UserTurnIn(t) ==
  /\ appends[t] # << >>
  /\ appends[t][1] \in Range(conversationHistory)

\* every entry appended so far, by any invocation
AllAppended == UNION {Range(appends[t]) : t \in Turns}

\* the entry appended at logical time k
EntryAt(k) == CHOOSE e \in AllAppended : e.timestamp = k

\* the number of appends so far
Appended == clock - 1

-----------------------------------------------------------------------------
(* C1 *)

\* C1 as stated: whenever the handler returned success:true, the assistant
\* Turn it appended lists a result of each of generateText,
\* generateMermaidDiagram and generateImage, whether or not corrective
\* invocations failed.
C1_AllThreeTypes ==
  \A t \in Turns :
    Succeeded(t) =>
      \E e \in AssistantAppends(t) :
        RequiredTools \subseteq ToolNamesIn(e.metadata.tools)

\* C1 amended: whenever the handler returned success:true it appended one
\* assistant Turn; its tools list has a generateText entry, has an entry of
\* generateMermaidDiagram or generateImage exactly when a tool-result of that
\* tool was streamed or the corrective invocation of that tool returned, and
\* so has all three when no corrective invocation failed.
C1_TypesUnlessCorrectiveFailed ==
  \A t \in Turns :
    Succeeded(t) =>
      /\ Cardinality(AssistantAppends(t)) = 1
      /\ \A e \in AssistantAppends(t) :
           LET names == ToolNamesIn(e.metadata.tools)
           IN  /\ "generateText" \in names
               /\ \A n \in RequiredTools :
                    n \in names <=> n \in StreamedTools(t) \cup CorrectedTools(t)
               /\ ~SomeCorrectiveThrew(t) => RequiredTools \subseteq names

\* a successful turn whose corrective image invocation failed after a layout
\* result was streamed
C1_Witness ==
  /\ Succeeded(1)
  /\ SomeCorrectiveThrew(1)
  /\ "generateLayout" \in StreamedTools(1)
  /\ \E e \in AssistantAppends(1) :
       "generateImage" \notin ToolNamesIn(e.metadata.tools)

-----------------------------------------------------------------------------
(* C2 *)

\* C2: an invocation with an empty or whitespace-only text is rejected: it
\* returns a failure, appends nothing to the history and gives the gateway no
\* message list.
C2_EmptyInputRejected ==
  \A t \in Turns :
    (pc[t] # "idle" /\ trim(text[t]) = << >>) =>
      /\ Failed(t)
      /\ appends[t] = << >>
      /\ messages[t] = << >>

-----------------------------------------------------------------------------
(* C3 *)

\* C3: in every reachable state the history holds at most maxHistoryItems
\* entries.
C3_HistoryBounded == Len(conversationHistory) <= maxHistoryItems

\* a full history after more than maxHistoryItems appends
C3_Witness ==
  /\ Len(conversationHistory) = maxHistoryItems
  /\ Appended > maxHistoryItems

-----------------------------------------------------------------------------
(* C4 *)

\* C4: with no clear, after N appends the history is the last
\* min(N, maxHistoryItems) appended entries in their append order; so after
\* N > maxHistoryItems appends it has exactly maxHistoryItems entries and the
\* oldest N - maxHistoryItems are absent.
C4_LastAppendedKept ==
  LET n == Min(Appended, maxHistoryItems)
  IN  /\ Len(conversationHistory) = n
      /\ \A i \in 1 .. n :
           conversationHistory[i] = EntryAt(Appended - n + i)
      /\ \A k \in 1 .. Appended - n :
           EntryAt(k) \notin Range(conversationHistory)

\* the oldest entry, a user Turn, has been evicted and an assistant Turn leads
C4_Witness ==
  /\ Appended = maxHistoryItems + 1
  /\ conversationHistory[1].timestamp = 2
  /\ conversationHistory[1].role = "assistant"

-----------------------------------------------------------------------------
(* C5 *)

\* C5: every step leaves the history unchanged, empties it, or appends one
\* entry at the tail of what is left of it after removing entries from its
\* head; no entry already in the history changes and none is reordered.
C5_AppendOnly ==
  [][\/ conversationHistory' = conversationHistory
     \/ conversationHistory' = << >>
     \/ /\ Len(conversationHistory') >= 1
        /\ \E k \in 0 .. Len(conversationHistory) :
             SubSeq(conversationHistory', 1, Len(conversationHistory') - 1)
               = SubSeq(conversationHistory, k + 1, Len(conversationHistory))]_vars

\* an assistant Turn was appended behind a user Turn after the head was evicted
C5_Witness ==
  /\ Len(conversationHistory) = maxHistoryItems
  /\ conversationHistory[1].timestamp > 1
  /\ Last(conversationHistory).role = "assistant"
  /\ conversationHistory[1].role = "user"

-----------------------------------------------------------------------------
(* C6 *)

\* the step in which invocation t returns success:false
FailsNow(t) == pc[t] # "done" /\ pc'[t] = "done" /\ ~ret'[t].success

\* C6 as stated: the user Turn that invocation t appended on entry is in the
\* history at the step in which t fails.
C6_UserTurnKeptOnFailure ==
  [][\A t \in Turns : FailsNow(t) => UserTurnIn(t)']_vars

\* C6 amended: the entry step of an invocation puts its user Turn at the tail
\* of the history before any event of its stream is consumed or forwarded;
\* the step in which the invocation fails leaves the history unchanged; and
\* the user Turn leaves the history only by a clear or by the eviction of the
\* head of a full history.
C6_UserTurnAppendedOnEntry ==
  [][\A t \in Turns :
       /\ (pc[t] = "idle" /\ pc'[t] # "idle") =>
            /\ UserTurnIn(t)'
            /\ Last(conversationHistory') = appends'[t][1]
            /\ appends'[t][1].role = "user"
            /\ appends'[t][1].content = text'[t]
            /\ stream'[t] = << >> /\ sent'[t] = << >>
       /\ FailsNow(t) => conversationHistory' = conversationHistory
       /\ (UserTurnIn(t) /\ ~UserTurnIn(t)') =>
            \/ conversationHistory' = << >>
            \/ /\ Len(conversationHistory) = maxHistoryItems
               /\ conversationHistory[1] = appends[t][1]
               /\ Len(conversationHistory') = maxHistoryItems]_vars

\* an invocation failed after consuming an event, its user Turn still there
C6_Witness ==
  /\ Failed(1)
  /\ stream[1] # << >>
  /\ UserTurnIn(1)

-----------------------------------------------------------------------------
(* C7 *)

\* the message the handler sends for a stream event
ForwardOf(e) ==
  CASE e.type = "text" -> [channel |-> "chat-stream-chunk", chunk |-> e.content]
    [] e.type = "tool-call" ->
         [channel |-> "tool-call", toolName |-> e.toolName, args |-> e.args]
    [] e.type = "tool-result" ->
         [channel |-> "tool-result", toolName |-> e.toolName, result |-> e.result]

\* the text deltas of a sequence of events, concatenated in order
RECURSIVE ConcatText(_)
ConcatText(evs) ==
  IF evs = << >> THEN << >>
  ELSE (IF Head(evs).type = "text" THEN Head(evs).content ELSE << >>)
         \o ConcatText(Tail(evs))

\* C7: the messages sent while streaming are the received events in receipt
\* order, one message per event, none outstanding when the next event is
\* awaited; the text buffer is the concatenation of the text deltas in
\* receipt order.
C7_ForwardedInReceiptOrder ==
  \A t \in Turns :
    /\ Len(sent[t]) >= Len(stream[t])
    /\ \A i \in DOMAIN stream[t] : sent[t][i] = ForwardOf(stream[t][i])
    /\ pc[t] = "streaming" => Len(sent[t]) = Len(stream[t])
    /\ fullText[t] = ConcatText(stream[t])

\* a stream of two different text deltas around a tool call
C7_Witness ==
  /\ pc[1] = "streaming"
  /\ Len(stream[1]) = 3
  /\ stream[1][1].type = "text"
  /\ stream[1][2].type = "tool-call"
  /\ stream[1][3].type = "text"
  /\ stream[1][1].content # stream[1][3].content

-----------------------------------------------------------------------------
(* C8 *)

\* the step in which invocation t consumes a tool-call event
ToolCallNow(t) ==
  /\ Len(stream'[t]) = Len(stream[t]) + 1
  /\ Last(stream'[t]).type = "tool-call"

\* C8: the step that handles a tool-call event sends one tool-call message
\* with the event's tool name and arguments and changes neither the generated
\* types, the tool results, the text buffer nor the history.
C8_ToolCallOnlyForwards ==
  [][\A t \in Turns :
       ToolCallNow(t) =>
         /\ sent'[t] = Append(sent[t],
                              [channel |-> "tool-call",
                               toolName |-> Last(stream'[t]).toolName,
                               args |-> Last(stream'[t]).args])
         /\ generatedTypes'[t] = generatedTypes[t]
         /\ toolResults'[t] = toolResults[t]
         /\ fullText'[t] = fullText[t]
         /\ conversationHistory' = conversationHistory]_vars

\* a tool call was just forwarded, after a result and a text delta
C8_Witness ==
  /\ pc[1] = "streaming"
  /\ Len(stream[1]) = 3
  /\ Last(stream[1]).type = "tool-call"
  /\ Last(sent[1]).channel = "tool-call"
  /\ generatedTypes[1] # {}
  /\ fullText[1] # << >>

-----------------------------------------------------------------------------
(* C9 *)

\* the number of corrective invocations of a tool made by invocation t
CallCount(t, n) == Cardinality({i \in DOMAIN calls[t] : calls[t][i].toolName = n})

\* C9: no corrective invocation is made before the stream has ended; each is
\* of one of the three required tools, none of a tool of which a tool-result
\* was streamed and at most one per tool; and when the handler has returned
\* success:true exactly one was made of every required tool of which no
\* tool-result was streamed.
C9_OneCorrectivePerMissingType ==
  \A t \in Turns :
    /\ pc[t] \in {"idle", "streaming"} => calls[t] = << >>
    /\ \A i \in DOMAIN calls[t] : calls[t][i].toolName \in RequiredTools
    /\ \A n \in RequiredTools :
         /\ CallCount(t, n) <= 1
         /\ n \in StreamedTools(t) => CallCount(t, n) = 0
         /\ Succeeded(t) =>
              CallCount(t, n) = IF n \in StreamedTools(t) THEN 0 ELSE 1

\* a returned turn with one type streamed and the two others corrected
C9_Witness ==
  /\ Succeeded(1)
  /\ "generateText" \in StreamedTools(1)
  /\ Len(calls[1]) = 2

-----------------------------------------------------------------------------
(* C10 *)

\* C10: once a corrective invocation has failed the handler still makes the
\* corrective invocation of every remaining missing type, in order, and then
\* appends its assistant Turn, sends chat-stream-complete and returns
\* success:true.
C10_CorrectiveFailureCaught ==
  \A t \in Turns :
    SomeCorrectiveThrew(t) =>
      /\ pc[t] \in {"corrective", "done"}
      /\ \A i \in DOMAIN calls[t] :
           i <= Len(missingTypes[t])
           /\ calls[t][i].toolName = ToolOf(missingTypes[t][i])
      /\ pc[t] = "corrective" =>
           Len(calls[t]) < Len(missingTypes[t]) /\ idx[t] = Len(calls[t]) + 1
      /\ pc[t] = "done" =>
           /\ ret[t].success
           /\ Len(calls[t]) = Len(missingTypes[t])
           /\ Cardinality(AssistantAppends(t)) = 1
           /\ Last(sent[t]).channel = "chat-stream-complete"

\* the diagram invocation failed, the image invocation was still made, and
\* the turn returned success:true
C10_Witness ==
  /\ Succeeded(1)
  /\ \E i \in DOMAIN calls[1] :
       /\ calls[1][i].threw
       /\ calls[1][i].toolName = "generateMermaidDiagram"
       /\ i < Len(calls[1])

-----------------------------------------------------------------------------
\* the positions in appends[t] of the assistant Turns invocation t appended
AssistantIndexes(t) == {i \in DOMAIN appends[t] : appends[t][i].role = "assistant"}

\* the assistant Turn of invocation t (when it appended one)
AssistantTurn(t) == appends[t][CHOOSE i \in AssistantIndexes(t) : TRUE]

\* C11: a turn that returns success:true has appended exactly one assistant
\* Turn; the step that appends an assistant Turn is the step in which the
\* handler returns success:true, every corrective invocation has been made
\* by then, and after it the turn consumes no stream event, makes no
\* corrective invocation and appends nothing.
C11_OneAssistantTurnAtEnd ==
  [][\A t \in Turns :
       /\ Succeeded(t)' => Cardinality(AssistantIndexes(t)') = 1
       /\ AssistantIndexes(t)' # AssistantIndexes(t) =>
            /\ pc[t] \in {"streaming", "corrective"}
            /\ Succeeded(t)'
            /\ Len(calls'[t]) = Len(missingTypes'[t])
       /\ pc[t] = "done" =>
            /\ stream'[t] = stream[t]
            /\ calls'[t] = calls[t]
            /\ appends'[t] = appends[t]]_vars

\* a turn without streamed text succeeded after three corrective
\* invocations, of which some failed
C11_Witness ==
  /\ Succeeded(1)
  /\ fullText[1] = << >>
  /\ Len(calls[1]) = 3
  /\ SomeCorrectiveThrew(1)
  /\ Cardinality(AssistantIndexes(1)) = 1

-----------------------------------------------------------------------------
\* the tool-results among a sequence of stream events, in order, as the
\* {toolName, result} records the handler keeps
RECURSIVE ToolResultsOf(_)
ToolResultsOf(evs) ==
  IF evs = << >> THEN << >>
  ELSE (IF Head(evs).type = "tool-result"
        THEN <<[toolName |-> Head(evs).toolName, result |-> Head(evs).result]>>
        ELSE << >>)
         \o ToolResultsOf(Tail(evs))

\* the tool-result messages among a sequence of sent messages, in order
RECURSIVE ToolResultsSent(_)
ToolResultsSent(msgs) ==
  IF msgs = << >> THEN << >>
  ELSE (IF Head(msgs).channel = "tool-result"
        THEN <<[toolName |-> Head(msgs).toolName, result |-> Head(msgs).result]>>
        ELSE << >>)
         \o ToolResultsSent(Tail(msgs))

\* the messages invocation t sent after its stream ended
SentAfterStream(t) == SubSeq(sent[t], Len(stream[t]) + 1, Len(sent[t]))

\* the corrective invocations of t that returned a result, in order
ReturnedCalls(t) == SelectSeq(calls[t], LAMBDA c : ~c.threw)

\* the place of a tool in the order text, diagram, image
Rank(toolName) ==
  CASE toolName = "generateText" -> 1
    [] toolName = "generateMermaidDiagram" -> 2
    [] toolName = "generateImage" -> 3

\* the type of the result a tool produces
ResultType(toolName) ==
  CASE toolName = "generateText" -> "text"
    [] toolName = "generateMermaidDiagram" -> "mermaid"
    [] toolName = "generateImage" -> "image"

Placeholder == <<"Tool execution completed">>

\* C12: the assistant Turn of a successful turn has as content the
\* concatenation of the streamed text deltas, or the placeholder when that is
\* empty, carries the model identifier, and its metadata.tools is the
\* streamed tool-results in arrival order followed by the results of the
\* corrective invocations that returned, which were made in the order text,
\* diagram, image.
C12_AssistantTurnContent ==
  \A t \in Turns :
    Succeeded(t) =>
      LET a == AssistantTurn(t)
          corrective == ToolResultsSent(SentAfterStream(t))
          returned == ReturnedCalls(t)
      IN  /\ a.content = (IF ConcatText(stream[t]) # << >>
                          THEN ConcatText(stream[t]) ELSE Placeholder)
          /\ a.metadata.model = ModelId
          /\ a.metadata.tools = ToolResultsOf(stream[t]) \o corrective
          /\ Len(corrective) = Len(returned)
          /\ \A i \in DOMAIN corrective :
               /\ corrective[i].toolName = returned[i].toolName
               /\ corrective[i].result.type = ResultType(returned[i].toolName)
          /\ \A i, j \in DOMAIN calls[t] :
               i < j => Rank(calls[t][i].toolName) < Rank(calls[t][j].toolName)

\* two generateText results were streamed, the corrective diagram and image
\* both returned: four tool results, the streamed duplicates first
C12_Witness ==
  /\ Succeeded(1)
  /\ Len(ToolResultsOf(stream[1])) = 2
  /\ StreamedTools(1) = {"generateText"}
  /\ Len(ReturnedCalls(1)) = 2
  /\ Len(AssistantTurn(1).metadata.tools) = 4
  /\ AssistantTurn(1).content = Placeholder

-----------------------------------------------------------------------------
\* the events of a stream that carry content: text deltas and tool-results
ContentEvents(t) ==
  {i \in DOMAIN stream[t] : stream[t][i].type \in {"text", "tool-result"}}

\* C13 as stated: a turn that ended with success:false received no text
\* delta and no tool-result before it failed.
C13_NoFailureAfterContent ==
  \A t \in Turns : Failed(t) => ContentEvents(t) = {}

\* C13 amended: a turn ends with success:false only in a step in which its
\* primary stream raises, whatever was received and forwarded before; the
\* error returned is the stream's, no corrective invocation has been made,
\* and a turn that has made a corrective invocation never fails.
C13_FailsOnlyWhenStreamRaises ==
  [][\A t \in Turns :
       /\ FailsNow(t) =>
            /\ pc[t] = "streaming"
            /\ calls[t] = << >>
            /\ stream'[t] = stream[t]
            /\ sent'[t] = sent[t]
            /\ ret'[t].error = "Stream request failed"
       /\ (pc'[t] = "done" /\ calls'[t] # << >>) => ret'[t].success]_vars

\* the stream raised after a text delta and a tool-result had been received
\* and forwarded
C13_Witness ==
  /\ Failed(1)
  /\ \E i, j \in ContentEvents(1) :
       /\ stream[1][i].type = "text"
       /\ stream[1][j].type = "tool-result"
       /\ sent[1][i] = ForwardOf(stream[1][i])
       /\ sent[1][j] = ForwardOf(stream[1][j])

-----------------------------------------------------------------------------
\* C14 as stated: no invocation ends by throwing, and one that has returned
\* returned success:false exactly when its input was invalid (empty after
\* trimming) or its stream raised, each with an error string.
C14_AlwaysReturnsVerdict ==
  \A t \in Turns :
    /\ pc[t] # "rejected"
    /\ pc[t] = "done" =>
         /\ ret[t].success \in BOOLEAN
         /\ trim(text[t]) = << >> => ~ret[t].success
         /\ ~ret[t].success => ret[t].error # ""

-----------------------------------------------------------------------------
ContentTypes == {"text", "diagram", "image"}

Abs(n) == IF n < 0 THEN 0 - n ELSE n

\* C15: the default positions of text, diagram and image are pairwise at
\* least 20 apart on the x axis or on the y axis; every corrective
\* invocation is given the default position of its type, and every corrective
\* result forwarded carries that position.
C15_CorrectiveDefaultsApart ==
  /\ \A a, b \in ContentTypes :
       a # b => \/ Abs(positionMap(a).x - positionMap(b).x) >= 20
                \/ Abs(positionMap(a).y - positionMap(b).y) >= 20
  /\ \A t \in Turns :
       /\ \A i \in DOMAIN calls[t] :
            \E type \in ContentTypes :
              /\ calls[t][i].toolName = ToolOf(type)
              /\ calls[t][i].args.positionX = <<positionMap(type).x>>
              /\ calls[t][i].args.positionY = <<positionMap(type).y>>
       /\ LET corrective == ToolResultsSent(SentAfterStream(t))
          IN  \A i \in DOMAIN corrective :
                \E type \in ContentTypes :
                  /\ corrective[i].toolName = ToolOf(type)
                  /\ corrective[i].result.position = positionMap(type)

\* the three corrective invocations of a turn all returned a result
C15_Witness ==
  /\ Succeeded(1)
  /\ Len(ReturnedCalls(1)) = 3
  /\ Len(ToolResultsSent(SentAfterStream(1))) = 3

-----------------------------------------------------------------------------
PositionedTypes == {"text", "mermaid", "image"}

\* C16 as stated: every positioned result forwarded in a turn has x from 0
\* to 100 and y from 0 to 65.
C16_ForwardedPositionsInRange ==
  \A t \in Turns :
    LET forwarded == ToolResultsSent(sent[t])
    IN  \A i \in DOMAIN forwarded :
          forwarded[i].result.type \in PositionedTypes =>
            /\ forwarded[i].result.position.x \in 0..100
            /\ forwarded[i].result.position.y \in 0..MaxPolicyY

-----------------------------------------------------------------------------
\* the corrective generateImage invocations of t
ImageCalls(t) ==
  {i \in DOMAIN calls[t] : calls[t][i].toolName = "generateImage"}

\* the gateway answered, with a completion reason among stop, length and
\* content_filter
ReasonAllowed(r) ==
  /\ r.ok
  /\ r.finish_reason # << >>
  /\ r.finish_reason[1] \in {"stop", "length", "content_filter"}

\* the gateway answered with a non-empty first image
FirstImagePresent(r) ==
  /\ r.ok
  /\ Len(r.images) > 0
  /\ r.images[1] # << >>

\* the image results forwarded by the corrective loop of t
ImageResultsSent(t) ==
  SelectSeq(ToolResultsSent(SentAfterStream(t)),
            LAMBDA m : m.toolName = "generateImage")

\* C17: an invocation of generateImage returns a result exactly when the
\* gateway answered with an allowed completion reason and a non-empty first
\* image, and throws in every other case (request failed, reason missing or
\* not allowed even with an image present, no image, text instead of an
\* image); the result is the first image; the invocation makes one gateway
\* request.
C17_ImageOnlyWhenReasonAllowed ==
  \A t \in Turns :
    /\ \A i \in ImageCalls(t) :
         LET c == calls[t][i]
         IN  /\ ~c.threw <=> (ReasonAllowed(c.response) /\ FirstImagePresent(c.response))
             /\ c.requests = 1
             /\ (pc[t] = "done" /\ ~c.threw) =>
                  /\ Len(ImageResultsSent(t)) = 1
                  /\ ImageResultsSent(t)[1].result.type = "image"
                  /\ ImageResultsSent(t)[1].result.content = c.response.images[1]
             /\ (pc[t] = "done" /\ c.threw) => ImageResultsSent(t) = << >>
    /\ Cardinality(ImageCalls(t)) <= 1

\* the gateway answered with an image but with completion reason error:
\* generateImage threw
C17_Witness ==
  \E i \in ImageCalls(1) :
    /\ calls[1][i].response.ok
    /\ calls[1][i].response.finish_reason = <<"error">>
    /\ FirstImagePresent(calls[1][i].response)
    /\ calls[1][i].threw
    /\ pc[1] = "done"

-----------------------------------------------------------------------------
\* the corrective generateMermaidDiagram invocations of t
DiagramCalls(t) ==
  {i \in DOMAIN calls[t] : calls[t][i].toolName = "generateMermaidDiagram"}

\* C18 as stated: an invocation of generateMermaidDiagram throws when the
\* gateway request failed and when the gateway returned an empty diagram
\* text, and no mermaid result with empty content is produced.
C18_NoEmptyDiagram ==
  \A t \in Turns :
    /\ \A i \in DiagramCalls(t) :
         LET c == calls[t][i]
         IN  /\ ~c.response.ok => c.threw
             /\ (c.response.ok /\ c.response.content = << >>) => c.threw
    /\ LET forwarded == ToolResultsSent(SentAfterStream(t))
       IN  \A i \in DOMAIN forwarded :
             forwarded[i].result.type = "mermaid" =>
               forwarded[i].result.content # << >>

-----------------------------------------------------------------------------
\* no generateImage tool-result arrived in the stream of t, and the
\* corrective generateImage invocation of t threw
ImageCorrectiveFailed(t) ==
  /\ pc[t] = "done"
  /\ "generateImage" \notin StreamedTools(t)
  /\ \E i \in ImageCalls(t) : calls[t][i].threw

\* C19 as stated: when the corrective generateImage invocation fails, the
\* turn returns success:true and the persisted tools have no image entry
\* but a text and a diagram entry, two results when nothing was streamed.
C19_TextAndDiagramKept ==
  \A t \in Turns :
    ImageCorrectiveFailed(t) =>
      LET tools == AssistantTurn(t).metadata.tools
      IN  /\ ret[t].success
          /\ "generateImage" \notin ToolNamesIn(tools)
          /\ "generateText" \in ToolNamesIn(tools)
          /\ "generateMermaidDiagram" \in ToolNamesIn(tools)
          /\ ToolResultsOf(stream[t]) = << >> => Len(tools) = 2

\* C19 amended: when the corrective generateImage invocation fails, the turn
\* returns success:true and the persisted tools have no image entry and have
\* a text entry; they have a diagram entry exactly when a diagram result was
\* streamed or the corrective diagram invocation returned (it can fail in
\* the same turn); when nothing was streamed they are two results if the
\* corrective diagram returned and the text result alone if it failed.
C19_ImageFailureNonFatal ==
  \A t \in Turns :
    ImageCorrectiveFailed(t) =>
      LET tools == AssistantTurn(t).metadata.tools
          diagram == "generateMermaidDiagram"
                       \in (StreamedTools(t) \cup CorrectedTools(t))
      IN  /\ ret[t].success
          /\ Cardinality(AssistantIndexes(t)) = 1
          /\ "generateImage" \notin ToolNamesIn(tools)
          /\ "generateText" \in ToolNamesIn(tools)
          /\ "generateMermaidDiagram" \in ToolNamesIn(tools) <=> diagram
          /\ ToolResultsOf(stream[t]) = << >> =>
               Len(tools) = (IF diagram THEN 2 ELSE 1)

\* nothing but text was streamed, the corrective image invocation met the
\* completion reason error, the corrective text and diagram returned: two
\* results
C19_Witness ==
  /\ ImageCorrectiveFailed(1)
  /\ ToolResultsOf(stream[1]) = << >>
  /\ \E i \in ImageCalls(1) :
       /\ calls[1][i].response.ok
       /\ calls[1][i].response.finish_reason = <<"error">>
  /\ CorrectedTools(1) = {"generateText", "generateMermaidDiagram"}
  /\ Len(AssistantTurn(1).metadata.tools) = 2

-----------------------------------------------------------------------------
\* the stream of t delivered text deltas and nothing else, and has ended
TextOnlyStream(t) ==
  /\ pc[t] = "corrective" \/ Succeeded(t)
  /\ stream[t] # << >>
  /\ \A i \in DOMAIN stream[t] : stream[t][i].type = "text"

RequiredToolsInOrder == <<"generateText", "generateMermaidDiagram", "generateImage">>

\* the tools invoked by the corrective loop of t so far, in order
CalledTools(t) == [i \in DOMAIN calls[t] |-> calls[t][i].toolName]

\* C20 as stated: after a stream of text deltas only, the corrective text,
\* diagram and image invocations are made, and if they succeed the assistant
\* Turn holds three tool results, the text result's content being the
\* streamed buffer.
C20_TextFromBuffer ==
  \A t \in Turns :
    (TextOnlyStream(t) /\ pc[t] = "done") =>
      /\ CalledTools(t) = RequiredToolsInOrder
      /\ ~SomeCorrectiveThrew(t) =>
           LET tools == AssistantTurn(t).metadata.tools
           IN  /\ Len(tools) = 3
               /\ tools[1].toolName = "generateText"
               /\ tools[1].result.content = ConcatText(stream[t])

\* C20 amended: as C20, the text result's content being the streamed buffer
\* with leading and trailing whitespace removed, or "Response to: " followed
\* by the input when the buffer is whitespace only.
C20_TextFromTrimmedBuffer ==
  \A t \in Turns :
    /\ TextOnlyStream(t) =>
         /\ generatedTypes[t] = {}
         /\ \A i \in DOMAIN calls[t] : calls[t][i].toolName = RequiredToolsInOrder[i]
    /\ (TextOnlyStream(t) /\ pc[t] = "done") =>
         /\ CalledTools(t) = RequiredToolsInOrder
         /\ ~SomeCorrectiveThrew(t) =>
              LET tools == AssistantTurn(t).metadata.tools
                  buffer == ConcatText(stream[t])
              IN  /\ Len(tools) = 3
                  /\ [i \in 1..3 |-> tools[i].toolName] = RequiredToolsInOrder
                  /\ tools[1].result.type = "text"
                  /\ tools[1].result.content =
                       (IF trim(buffer) # << >> THEN trim(buffer)
                        ELSE <<"Response to: ">> \o text[t])

\* the deltas "4" and " " were streamed for the input "What is 2+2?", the
\* three corrective invocations returned: the text result is "4"
C20_Witness ==
  /\ Succeeded(1)
  /\ text[1] = <<"What is 2+2?">>
  /\ TextOnlyStream(1)
  /\ ConcatText(stream[1]) = <<"4", " ">>
  /\ ~SomeCorrectiveThrew(1)
  /\ Len(AssistantTurn(1).metadata.tools) = 3
  /\ AssistantTurn(1).metadata.tools[1].result.content = <<"4">>

-----------------------------------------------------------------------------
\* the corrective generateText invocations of t
TextCalls(t) == {i \in DOMAIN calls[t] : calls[t][i].toolName = "generateText"}

\* the fallback text of the corrective text branch
Fallback(t) == <<"Response to: ">> \o text[t]

\* C21 as stated: the corrective text is the buffer whenever the buffer is
\* non-empty, and the fallback only when the buffer is empty.
C21_BufferWheneverNonEmpty ==
  \A t \in Turns : \A i \in TextCalls(t) :
    calls[t][i].args.text =
      (IF fullText[t] # << >> THEN fullText[t] ELSE Fallback(t))

\* C21 amended: the corrective text is the buffer without its leading and
\* trailing whitespace whenever that is non-empty, and the fallback when the
\* buffer is empty or holds whitespace only; the forwarded text result
\* carries it.
C21_TrimmedBufferOrFallback ==
  \A t \in Turns : \A i \in TextCalls(t) :
    LET buffer == ConcatText(stream[t])
        expected == IF trim(buffer) # << >> THEN trim(buffer) ELSE Fallback(t)
        corrective == ToolResultsSent(SentAfterStream(t))
    IN  /\ i = 1
        /\ calls[t][i].args.text = expected
        /\ ~calls[t][i].threw
        /\ corrective # << >>
        /\ corrective[1].toolName = "generateText"
        /\ corrective[1].result.content = expected

\* the buffer holds whitespace only: the corrective text is the fallback
C21_Witness ==
  /\ text[1] = <<"What is 2+2?">>
  /\ fullText[1] = <<" ">>
  /\ \E i \in TextCalls(1) :
       calls[1][i].args.text = <<"Response to: ", "What is 2+2?">>

-----------------------------------------------------------------------------
\* the executions of generateText made so far
TextApplications == {i \in DOMAIN applied : applied[i].toolName = "generateText"}

-----------------------------------------------------------------------------
\* the executions that returned a result
ReturnedApplications == {i \in DOMAIN applied : ~applied[i].threw}

\* C23: in the result of each tool the x coordinate is 50 when positionX was
\* omitted and the supplied positionX otherwise, 0 included, and likewise
\* the y coordinate for positionY, each axis by itself.
C23_PositionDefaults ==
  \A i \in ReturnedApplications :
    LET a == applied[i]
    IN  /\ a.result.position.x =
             (IF a.args.positionX = << >> THEN 50 ELSE a.args.positionX[1])
        /\ a.result.position.y =
             (IF a.args.positionY = << >> THEN 50 ELSE a.args.positionY[1])

\* a diagram executed with positionX 0 and no positionY is at (0,50), and a
\* text executed with no positionX and positionY 100 is at (50,100)
C23_Witness ==
  /\ \E i \in ReturnedApplications :
       /\ applied[i].toolName = "generateMermaidDiagram"
       /\ applied[i].args.positionX = <<0>>
       /\ applied[i].args.positionY = << >>
       /\ applied[i].result.position = [x |-> 0, y |-> 50]
  /\ \E i \in ReturnedApplications :
       /\ applied[i].toolName = "generateText"
       /\ applied[i].args.positionX = << >>
       /\ applied[i].args.positionY = <<100>>
       /\ applied[i].result.position = [x |-> 50, y |-> 100]

-----------------------------------------------------------------------------
\* C24: a tool executed with the same arguments (and the same gateway
\* answer) gives the same result whether the orchestrator called it or the
\* model did, and every result is {type, content, position: {x, y}} with
\* the type tag of its tool.
C24_SameShapeOnBothPaths ==
  /\ \A i, j \in DOMAIN applied :
       (/\ applied[i].toolName = applied[j].toolName
        /\ applied[i].args = applied[j].args
        /\ applied[i].response = applied[j].response) =>
         /\ applied[i].threw = applied[j].threw
         /\ applied[i].result = applied[j].result
  /\ \A i \in ReturnedApplications :
       /\ DOMAIN applied[i].result = {"type", "content", "position"}
       /\ DOMAIN applied[i].result.position = {"x", "y"}
       /\ applied[i].result.type = ResultType(applied[i].toolName)

\* generateImage was executed by the orchestrator and by the model with the
\* same arguments and the same gateway answer, and returned both times
C24_Witness ==
  /\ Len(applied) = 2
  /\ {applied[1].path, applied[2].path} = {"direct", "model"}
  /\ applied[1].toolName = "generateImage"
  /\ applied[2].toolName = "generateImage"
  /\ applied[1].args = applied[2].args
  /\ applied[1].response = applied[2].response
  /\ ReturnedApplications = {1, 2}

-----------------------------------------------------------------------------
\* C25: a call of clear() leaves the history empty and the recorded events
\* empty, whatever they held; the append that follows a clear() starts from
\* the empty history (or the empty events list).
C25_ClearDropsEverything ==
  [][/\ op' = "clear" => (conversationHistory' = << >> /\ events' = << >>)
     /\ (op = "clear" /\ op' \in {"addUserInput", "addModelResponse"}) =>
          (Len(conversationHistory') = 1 /\ events' = << >>)
     /\ (op = "clear" /\ op' = "addEvent") =>
          (Len(events') = 1 /\ conversationHistory' = << >>)]_vars

\* clear() was called after MaxSessionOps appends
C25_Witness ==
  /\ op = "clear"
  /\ clock > MaxSessionOps
  /\ conversationHistory = << >>
  /\ events = << >>

-----------------------------------------------------------------------------
\* C26: for the history as it is, getOptimizedHistory returns as recent the
\* last min(maxRecentItems, length) entries in order (none for the empty
\* history), as full the whole history and as count its length.
C26_OptimizedHistoryView ==
  LET h == conversationHistory
      view == getOptimizedHistory(h)
      n == IF maxRecentItems < Len(h) THEN maxRecentItems ELSE Len(h)
  IN  /\ Len(view.recent) = n
      /\ \A k \in 1..n : view.recent[k] = h[Len(h) - n + k]
      /\ h = << >> => view.recent = << >>
      /\ view.full = h
      /\ view.count = Len(h)

\* getOptimizedHistory was called on a history longer than maxRecentItems:
\* recent is its tail, not the whole and not its head
C26_Witness ==
  /\ op = "getOptimizedHistory"
  /\ Len(conversationHistory) > maxRecentItems
  /\ LET view == getOptimizedHistory(conversationHistory)
     IN  /\ Len(view.recent) = maxRecentItems
         /\ view.recent[maxRecentItems] = Last(conversationHistory)
         /\ view.recent[1] # conversationHistory[1]
         /\ view.count = Len(conversationHistory)

(***************************************************************************)
(* C27                                                                     *)
(***************************************************************************)
\* every line the parser was given so far, in order
RECURSIVE Flatten(_)
Flatten(chunks) ==
  IF chunks = << >> THEN << >> ELSE Head(chunks) \o Flatten(Tail(chunks))

IsDoneLine(line) == startsWithData(line) /\ Tail(line) = <<"[DONE]">>

\* a data line whose JSON text parses and carries a content
IsContentLine(line) ==
  /\ startsWithData(line)
  /\ Tail(line) \in {<<"{content:Hi}">>, <<"{content:Yo}">>}

\* the lines before the first sentinel
BeforeDone(lines) ==
  LET dones == {k \in 1..Len(lines) : IsDoneLine(lines[k])}
      d == IF dones = {} THEN Len(lines) + 1
           ELSE CHOOSE k \in dones : \A j \in dones : k <= j
  IN  SubSeq(lines, 1, d - 1)

ContentToken(line) == IF line[2] = "{content:Hi}" THEN "Hi" ELSE "Yo"

\* C27: when the SSE parser has read a chunk, what it has yielded so far is
\* exactly the contents of the well-formed data lines before the first
\* [DONE] line, in their order: a malformed data line is skipped and neither
\* ends nor fails the stream, and once [DONE] is read the stream has ended
\* and nothing after it is yielded.
C27_MalformedSkippedDoneEnds ==
  [][(sse.state = "reading" /\ sse'.state # "idle"
        /\ Len(sse'.lines) > Len(sse.lines))
     => LET all == Flatten(sse'.lines)
            valid == SelectSeq(BeforeDone(all), IsContentLine)
        IN  /\ sse'.yielded = [k \in 1..Len(valid) |-> ContentToken(valid[k])]
            /\ sse'.state = IF \E k \in 1..Len(all) : IsDoneLine(all[k])
                            THEN "returned" ELSE "reading"]_vars

\* a malformed line, then a content that is yielded and leaves the stream
\* open; then the sentinel followed by a content that is not yielded
C27_Witness ==
  /\ sse.state = "returned"
  /\ sse.lines = << <<<<"data: ", "{cont">>, <<"data: ", "{content:Hi}">>>>,
                    <<<<"data: ", "[DONE]">>, <<"data: ", "{content:Yo}">>>> >>
  /\ sse.yielded = <<"Hi">>

(***************************************************************************)
(* C28                                                                     *)
(***************************************************************************)
IsPrefixOf(a, b) == Len(a) <= Len(b) /\ SubSeq(b, 1, Len(a)) = a

\* C28: in an invocation whose entry did not throw, streamChat is called
\* once, in the entry step: from then on its request is never made again,
\* the stream it returned is only read further, never started over, and an
\* invocation that left the stream, by its end or by its failure, never
\* goes back to streaming; a returned invocation does nothing more.
C28_StreamStartedOnce ==
  [][\A t \in Turns :
       /\ (pc[t] = "idle" /\ pc'[t] = "streaming")
            => messages'[t] # << >> /\ stream'[t] = << >>
       /\ pc[t] # "idle"
            => messages'[t] = messages[t] /\ IsPrefixOf(stream[t], stream'[t])
       /\ pc'[t] = "streaming" => pc[t] \in {"idle", "streaming"}
       /\ pc[t] = "done"
            => pc'[t] = "done" /\ stream'[t] = stream[t] /\ calls'[t] = calls[t]]_vars

\* the stream raised after MaxToolEvents events: the invocation returned the
\* failure and made no other request
C28_Witness ==
  /\ Failed(1)
  /\ ret[1].error = "Stream request failed"
  /\ Len(stream[1]) = MaxToolEvents
  /\ messages[1] # << >>
  /\ calls[1] = << >>

(***************************************************************************)
(* C29                                                                     *)
(***************************************************************************)
\* C29: every press of an accelerator of the README table ran the action
\* the table lists for it.
C29_ReadmeShortcutsRegistered ==
  \A k \in 1..Len(key) :
    key[k].accelerator \in DOMAIN ReadmeShortcuts
      => key[k].ran = ReadmeShortcuts[key[k].accelerator]

(***************************************************************************)
(* C30                                                                     *)
(***************************************************************************)
\* the content type the handler marks for a tool's name
MarkedType(toolName) ==
  CASE toolName = "generateText" -> "text"
    [] toolName = "generateMermaidDiagram" -> "diagram"
    [] toolName = "generateImage" -> "image"

\* the types for which the stream carried a tool-result of their tool
TypesWithResult(t) ==
  {MarkedType(stream[t][k].toolName) :
     k \in {j \in 1..Len(stream[t]) :
              /\ stream[t][j].type = "tool-result"
              /\ stream[t][j].toolName \in
                   {"generateText", "generateMermaidDiagram", "generateImage"}}}

\* C30: the generated types are exactly the types whose tool (generateText,
\* generateMermaidDiagram, generateImage) has a tool-result event in the
\* stream, whatever the result carries, null included; text deltas, tool
\* calls and generateLayout results add none.  At the end of the stream the
\* missing types are the others, in the order text, diagram, image, and no
\* corrective invocation is made for a generated type.
C30_GeneratedTypesByToolResult ==
  \A t \in Turns :
    /\ generatedTypes[t] = TypesWithResult(t)
    /\ (pc[t] = "corrective" \/ Succeeded(t)) =>
         /\ missingTypes[t] =
              SelectSeq(<<"text", "diagram", "image">>,
                        LAMBDA type : type \notin TypesWithResult(t))
         /\ \A i \in 1..Len(calls[t]) :
              MarkedType(calls[t][i].toolName) \notin TypesWithResult(t)

\* the stream carried a generateImage result with no payload and a layout
\* with a text, a diagram and an image element: image alone counts as
\* generated, and the turn ended with no corrective image invocation
C30_Witness ==
  /\ Succeeded(1)
  /\ \E j, k \in 1..Len(stream[1]) :
       /\ stream[1][j].type = "tool-result"
       /\ stream[1][j].toolName = "generateImage"
       /\ stream[1][j].result = Null
       /\ stream[1][k].type = "tool-result"
       /\ stream[1][k].toolName = "generateLayout"
       /\ Len(stream[1][k].result.elements) = 3
  /\ generatedTypes[1] = {"image"}
  /\ missingTypes[1] = <<"text", "diagram">>
  /\ Len(calls[1]) = 2

(***************************************************************************)
(* C31                                                                     *)
(***************************************************************************)
\* a step of clear-session that removed something
ClearsNow ==
  \/ conversationHistory # << >> /\ conversationHistory' = << >>
  \/ events # << >> /\ events' = << >>

\* the step in which invocation t returns success:true
CompletesNow(t) == pc[t] # "done" /\ pc'[t] = "done" /\ ret'[t].success

\* C31: a clear-session step leaves every invocation where it is, with its
\* buffer, its results and the messages it has sent; and the step in which
\* an invocation completes appends its assistant Turn at the tail of the
\* history whether or not the session was cleared since its entry, so the
\* history can hold that assistant Turn without the invocation's user Turn.
C31_ClearDoesNotCancel ==
  [][/\ ClearsNow =>
          /\ pc' = pc /\ ret' = ret
          /\ stream' = stream /\ sent' = sent /\ calls' = calls
          /\ fullText' = fullText /\ toolResults' = toolResults
          /\ generatedTypes' = generatedTypes /\ missingTypes' = missingTypes
     /\ \A t \in Turns :
          (CompletesNow(t) /\ (fullText[t] # << >> \/ toolResults'[t] # << >>)) =>
            /\ AssistantIndexes(t)' # {}
            /\ Last(conversationHistory') = Last(appends'[t])
            /\ Last(conversationHistory').role = "assistant"
            /\ Last(sent'[t]).channel = "chat-stream-complete"]_vars

\* the session was cleared while invocation 1 was in flight: the invocation
\* went on, forwarded its stream and completed, and its assistant Turn is
\* the only entry of the history
C31_Witness ==
  /\ Succeeded(1)
  /\ events = << >>
  /\ Len(stream[1]) = MaxStream
  /\ Len(appends[1]) = 2
  /\ conversationHistory = <<appends[1][2]>>
  /\ appends[1][2].role = "assistant"
  /\ appends[1][1].role = "user"

(***************************************************************************)
(* C32                                                                     *)
(***************************************************************************)
\* the tool results of the corrective invocations of t that returned, each
\* computed from that invocation's own arguments and gateway answer
OwnCorrectiveResults(t) ==
  LET returned == ReturnedCalls(t)
  IN  [i \in 1..Len(returned) |->
         [toolName |-> returned[i].toolName,
          result |-> execute(MarkedType(returned[i].toolName), returned[i].args,
                             returned[i].response).value]]

\* C32: under every interleaving of the invocations, each one's text buffer
\* is the text of its own stream and its generated types those of its own
\* stream; its corrective invocations take their arguments from its own
\* buffer and argument; the one assistant Turn it appends holds the text of
\* its own stream (or the placeholder) and the tool results of its own
\* stream followed by those of its own corrective invocations; and the
\* entries of the shared history stand in the order in which they were
\* appended.
C32_LocalsPrivate ==
  /\ \A t \in Turns :
       /\ pc[t] # "idle" =>
            /\ fullText[t] = ConcatText(stream[t])
            /\ generatedTypes[t] = TypesWithResult(t)
            /\ \A i \in 1..Len(calls[t]) :
                 calls[t][i].args =
                   CorrectiveArgs(MarkedType(calls[t][i].toolName),
                                  ConcatText(stream[t]), text[t])
       /\ Cardinality(AssistantIndexes(t)) <= 1
       /\ AssistantIndexes(t) # {} =>
            /\ Succeeded(t)
            /\ AssistantTurn(t).content = OrElse(ConcatText(stream[t]), Placeholder)
            /\ AssistantTurn(t).metadata.tools =
                 ToolResultsOf(stream[t]) \o OwnCorrectiveResults(t)
  /\ \A i, j \in 1..Len(conversationHistory) :
       i < j => conversationHistory[i].timestamp < conversationHistory[j].timestamp

\* two invocations overlapped and the second completed first; the first
\* streamed a text delta, the second an image result without payload
C32_Witness ==
  /\ Succeeded(1) /\ Succeeded(2)
  /\ stream[1] = <<[type |-> "text", content |-> <<"4">>]>>
  /\ stream[2] = <<[type |-> "tool-result", toolName |-> "generateImage",
                    result |-> Null]>>
  /\ AssistantTurn(2).timestamp < AssistantTurn(1).timestamp
  /\ AssistantTurn(1).content = <<"4">>
  /\ AssistantTurn(2).content = Placeholder
  /\ Len(AssistantTurn(1).metadata.tools) = 3
  /\ AssistantTurn(2).metadata.tools[1].result = Null

(***************************************************************************)
(* C33                                                                     *)
(***************************************************************************)
\* C33: an invocation that failed, its stream having raised after any
\* number of events, returned success:false; the one entry it pushed is its
\* user Turn, which is all the history holds; it made no corrective
\* invocation; and what it sent is exactly the forward of each event it had
\* consumed, in order, with nothing taken back and no completion message.
C33_RaiseAfterEvents ==
  \A t \in Turns :
    Failed(t) =>
      /\ ret[t] = [success |-> FALSE, error |-> "Stream request failed"]
      /\ Len(appends[t]) = 1
      /\ appends[t][1].role = "user"
      /\ conversationHistory = appends[t]
      /\ calls[t] = << >>
      /\ sent[t] = [k \in 1..Len(stream[t]) |-> ForwardOf(stream[t][k])]

\* the stream raised after a text delta and a generateText result, both
\* forwarded
C33_Witness ==
  /\ Failed(1)
  /\ Len(stream[1]) = 2
  /\ stream[1][1].type = "text"
  /\ stream[1][2].type = "tool-result"
  /\ stream[1][2].toolName = "generateText"
  /\ sent[1][1].channel = "chat-stream-chunk"
  /\ sent[1][2].channel = "tool-result"
  /\ fullText[1] # << >>
  /\ Len(toolResults[1]) = 1

(***************************************************************************)
(* C34                                                                     *)
(***************************************************************************)
\* the positions of chat-stream-complete among the messages t has sent
CompleteIndexes(t) ==
  {k \in 1..Len(sent[t]) : sent[t][k].channel = "chat-stream-complete"}

\* C34: an invocation has sent chat-stream-complete once if it returned
\* success:true and never otherwise (while it runs, or when it returned
\* success:false or threw); the completion message is the last message of
\* the invocation, behind every chat-stream-chunk, tool-call and tool-result
\* it sent, those of the corrective invocations included, and when it is
\* sent the assistant Turn has been appended.
C34_CompleteOnceAtEnd ==
  \A t \in Turns :
    /\ Cardinality(CompleteIndexes(t)) = (IF Succeeded(t) THEN 1 ELSE 0)
    /\ CompleteIndexes(t) # {} =>
         /\ CompleteIndexes(t) = {Len(sent[t])}
         /\ \A k \in 1..(Len(sent[t]) - 1) :
              sent[t][k].channel \in {"chat-stream-chunk", "tool-call", "tool-result"}
         /\ ToolResultsSent(SentAfterStream(t)) = OwnCorrectiveResults(t)
         /\ Cardinality(AssistantIndexes(t)) = 1
         /\ Last(appends[t]).role = "assistant"

\* a text delta and a tool call were forwarded, three corrective results
\* were sent, and the completion message came last
C34_Witness ==
  /\ Succeeded(1)
  /\ Len(stream[1]) = 2
  /\ sent[1][1].channel = "chat-stream-chunk"
  /\ sent[1][2].channel = "tool-call"
  /\ Len(ReturnedCalls(1)) = 3
  /\ Len(sent[1]) = 6
  /\ sent[1][6].channel = "chat-stream-complete"

(***************************************************************************)
(* C35                                                                     *)
(***************************************************************************)
\* C35: once the handler has returned, whether success:true or
\* success:false, the page eventually has no streaming message:
\* currentStreamingMessage is null and no message carries the streaming mark.
C35_RendererLeavesStreaming ==
  (pc[1] = "done") ~>
    (renderer.currentStreamingMessage = << >> /\ renderer.streaming = {})

(***************************************************************************)
(* C36                                                                     *)
(***************************************************************************)
\* the positions of the message list of t that hold t's own user text
OwnTextIndexes(t) ==
  {k \in 1..Len(messages[t]) :
     messages[t][k] = [role |-> "user", content |-> text[t]]}

\* C36: the message list an invocation gives to the gateway holds the
\* invocation's user text once, as its last message.
C36_UserTextOnce ==
  \A t \in Turns :
    pc[t] \in {"streaming", "corrective", "done"} =>
      OwnTextIndexes(t) = {Len(messages[t])}

(***************************************************************************)
(* C37                                                                     *)
(***************************************************************************)
\* the handlers that ran for the keys pressed so far
Ran(name) == {k \in 1..Len(key) : key[k].ran = name}

\* C37: after creation and any number of toggleInteraction calls, among
\* calls of the other window operations, every window ignores mouse events
\* exactly when isInteractive is false; and two toggleInteraction calls in a
\* row give back the flag and every window's mouse-event setting.
C37_MouseFollowsInteractive ==
  /\ \A n \in WindowNames : windows.ignoreMouse[n] = ~windows.isInteractive
  /\ LET twice == toggleInteraction(toggleInteraction(windows))
     IN  /\ twice.isInteractive = windows.isInteractive
         /\ twice.ignoreMouse = windows.ignoreMouse

\* toggleInteraction ran MaxPresses times, through both of its accelerators:
\* the windows ignore the mouse when the number of calls is odd
C37_Witness ==
  /\ Len(key) = MaxPresses
  /\ Cardinality(Ran("toggleInteraction")) = MaxPresses
  /\ \E j, k \in 1..Len(key) :
       key[j].accelerator = "Alt+A" /\ key[k].accelerator = "CommandOrControl+Shift+I"
  /\ windows.isInteractive = (MaxPresses % 2 = 0)
  /\ \A n \in WindowNames : windows.ignoreMouse[n] = (MaxPresses % 2 = 1)

(***************************************************************************)
(* C38                                                                     *)
(***************************************************************************)
\* C38: every window is shown exactly when isVisible is true, and two
\* toggleVisibility calls in a row give every window the visibility it had.
C38_ShownFollowsVisible ==
  /\ \A n \in WindowNames : windows.shown[n] = windows.isVisible
  /\ toggleVisibility(toggleVisibility(windows)).shown = windows.shown

=============================================================================
